---- MODULE Spec2Model ----
(***************************************************************************)
(* A model of metrics-generator: the graceful HTTP runtime                 *)
(* (internal/httprun, Server.run) and the limits configuration store       *)
(* (internal/limits, Config).                                              *)
(***************************************************************************)
EXTENDS Integers, Sequences, FiniteSets, TLC

(***************************************************************************)
(* Bounds of the model.                                                    *)
(***************************************************************************)
\* Largest Server.ShutdownTimeout tried, in clock ticks.
MaxTimeout == 2

\* Longest drain of the HTTP server that still finishes, in clock ticks.
MaxDrain == 2

\* Largest duration, in seconds, passed to the limits store.
MaxDuration == 2

\* Number of goroutines calling into the limits store.
NumThreads == 2

\* Iterations of the simulation loop that are followed.
MaxIterations == 3

\* Registered signals delivered to the process.
MaxSignals == 2

(***************************************************************************)
(* Program constants.                                                      *)
(***************************************************************************)
\* make(chan error, 2)
ErrorsCap == 2

\* if errorsPercentage < 0 || errorsPercentage > 100
MinPercentage == 0
MaxPercentage == 100

\* rand.Intn(100)
ErrorsDrawBound == 100

\* ch := make(chan os.Signal, 1)
SignalChCap == 1

(***************************************************************************)
(* Values.                                                                 *)
(***************************************************************************)
\* The drain of a server whose connections never become idle.
Never == -1

\* A context without a deadline.
NoDeadline == -1

\* The error values that travel through run.  "nil" is Go's nil error.
ErrNil == "nil"
ErrServe == "errServe"
ErrShutdown == "errShutdown"
ErrServerClosed == "ErrServerClosed"
ErrDeadlineExceeded == "DeadlineExceeded"
ErrCanceled == "context canceled"
ErrListen == "listen and serve"
ErrBuild == "build limits configuration"

\* No call of g.Duration.Observe yet.
NoObservation == -1

\* The context of Run is not cancelled.
NotCancelled == -1

\* http.StatusOK, http.StatusBadRequest, http.StatusInternalServerError
StatusOK == 200
StatusBadRequest == 400
StatusInternalServerError == 500

VARIABLES
    \* ---- httprun: the caller's context and the Server value
    ctxDone,          \* the lifecycle context handed to run is cancelled
    shutdownTimeout,  \* Server.ShutdownTimeout
    \* ---- httprun: the HTTPServer behind the interface
    serveFailsOnOwn,  \* the serve operation may fail without a Shutdown
    serveStopErr,     \* what the serve operation returns once Shutdown was invoked
    shutdownResult,   \* what Shutdown returns when its drain finishes
    drainTime,        \* ticks the drain needs, or Never
    shutdownCalls,    \* number of invocations of HTTPServer.Shutdown
    serveReturned,    \* the serve operation has returned
    shutdownReturned, \* number of returns of HTTPServer.Shutdown
    ctxTimeout,       \* timeout of the context handed to Shutdown
    elapsed,          \* ticks since that context was created
    \* ---- httprun: the locals of run
    errors,           \* buffer of the channel errors
    errorsClosed,     \* errors is closed
    closeCount,       \* number of close(errors) executed
    serveDone,        \* serveDone is closed
    shutdownDone,     \* shutdownDone is closed
    result,           \* the slice run builds
    serveErr,         \* value the serve goroutine is about to send
    shutdownErr,      \* value the watcher goroutine is about to send
    panicked,         \* a goroutine panicked (send on closed channel, double close)
    pcServe,          \* position of the goroutine of lines 72-76
    pcWatch,          \* position of the goroutine of lines 78-87
    pcCloser,         \* position of the goroutine of lines 89-94
    pcRun,            \* position of run itself, lines 96-104
    \* ---- limits: the Config value
    minDuration,      \* Config.minDuration
    maxDuration,      \* Config.maxDuration
    errorsPercentage, \* Config.errorsPercentage
    mu,               \* Config.mu: [writer, readers]
    \* ---- limits: the goroutines that call into the Config
    lpc,              \* position of each goroutine
    argMin,           \* minDuration argument of the call in progress
    argMax,           \* maxDuration argument of the call in progress
    argPct,           \* errorsPercentage argument of the call in progress
    retErr,           \* error returned by the last setter call
    retMin,           \* first value returned by DurationInterval
    retMax,           \* second value returned by DurationInterval
    retPct,           \* value returned by ErrorsPercentage
    lastSet,          \* arguments of the last SetDurationInterval that stored them
    \* ---- metrics: Generator.Run
    gpc,              \* position of Run in its loop
    genCtxDone,       \* ctx.Done() of the context handed to Run is closed
    genResult,        \* value returned by Run
    timerFired,       \* the channel of time.After has its value
    iterations,       \* calls of g.Duration.Observe so far
    observed,         \* argument of the last g.Duration.Observe
    errorsInc,        \* calls of g.Errors.Inc() so far
    ignored,          \* times select took the timer while ctx.Done() was ready
    startMax,         \* maximum duration stored when Run was called
    cancelledAt,      \* observations made when the context was cancelled
    \* ---- api: Handler
    request,          \* the last request served: handler, body, what the client meant
    response,         \* what the handler wrote to the http.ResponseWriter
    setterCalled,     \* the Config setter the handler called for it, with its result
    clientPair,       \* pair of the last PUT of the duration interval answered 200
    \* ---- main: contextWithSignal
    cwsPc,            \* position of contextWithSignal
    sigPc,            \* position of the goroutine contextWithSignal starts
    sigCh,            \* number of signals in the buffer of ch
    sigDelivered,     \* registered signals delivered to the process so far
    parentDone,       \* parent.Done() is closed
    lifeDone,         \* ctx.Done() of the derived context is closed
    cancelCalled,     \* the caller has called the cancel function it was given
    registered,       \* the signals handed to signal.Notify
    killed,           \* a signal nobody is notified of has ended the process
    \* ---- main: metricsGenerator.run
    opc,              \* position of metricsGenerator.run
    genRun,           \* the errgroup goroutine of generator.Run(ctx)
    genRunErr,        \* what generator.Run returned
    srvRun,           \* the errgroup goroutine of server.Run(ctx)
    srvRunErr,        \* what server.Run returned
    apiWatchPc,       \* position of the goroutine server.Run starts
    apiShutdownErr,   \* what server.Shutdown returned (it is logged)
    groupErr,         \* the error the errgroup.Group keeps
    runResult         \* the errors visible in what metricsGenerator.run returned

envVars == <<shutdownTimeout, serveFailsOnOwn, serveStopErr, shutdownResult, drainTime>>

runVars == <<ctxDone, envVars, shutdownCalls, serveReturned, shutdownReturned,
             ctxTimeout, elapsed, errors, errorsClosed, closeCount, serveDone,
             shutdownDone, result, serveErr, shutdownErr, panicked,
             pcServe, pcWatch, pcCloser, pcRun>>

limitsVars == <<minDuration, maxDuration, errorsPercentage, mu, lpc, argMin,
                argMax, argPct, retErr, retMin, retMax, retPct, lastSet>>

genVars == <<gpc, genCtxDone, genResult, timerFired, iterations, observed,
             errorsInc, ignored, startMax,
             cancelledAt>>

\* What the goroutines calling into the Config hold besides its fields.
callerVars == <<mu, lpc, argMin, argMax, argPct, retErr, retMin, retMax, retPct>>

apiVars == <<request, response, setterCalled, clientPair>>

sigVars == <<cwsPc, sigPc, sigCh, sigDelivered, parentDone, lifeDone,
             cancelCalled, registered, killed>>

orchVars == <<opc, genRun, genRunErr, srvRun, srvRunErr, apiWatchPc,
              apiShutdownErr, groupErr, runResult>>

outsideRun == <<limitsVars, genVars, apiVars, sigVars, orchVars>>

outsideLimits == <<runVars, genVars, apiVars, sigVars, orchVars>>

outsideGen == <<runVars, apiVars, sigVars, orchVars>>

outsideApi == <<runVars, genVars, callerVars, sigVars, orchVars>>

outsideSig == <<runVars, limitsVars, genVars, apiVars, orchVars>>

outsideOrch == <<runVars, genVars, apiVars, callerVars>>

vars == <<runVars, limitsVars, genVars, apiVars, sigVars, orchVars>>

(***************************************************************************)
(* limits.Config                                                           *)
(***************************************************************************)

\* The goroutines that share the Config (the simulation loop, API handlers).
Threads == 1..NumThreads

\* The pairs the callers pass to SetDurationInterval: every pair of durations
\* up to MaxDuration, zero included, and a negative value on either side.
DurationArgs == 0..MaxDuration
DurationPairs == (DurationArgs \X DurationArgs) \cup {<<-1, 1>>, <<1, -1>>}

\* The percentages the callers pass: the two ends of the range and the first
\* value outside it on either side.
PercentageArgs == {MinPercentage - 1, MinPercentage, MaxPercentage,
                   MaxPercentage + 1}

\* The errors of the setters, named after the check that raises them.
ErrMinNotPositive == "minimum duration is less than or equal to zero"
ErrMaxNotPositive == "maximum duration is less than or equal to zero"
ErrMaxBelowMin == "maximum duration is less then or equal to minimum duration"
ErrNotPercentage == "value is not a valid percentage"

NoWriter == 0

\* A mis-stated bound check: rejects a maximum equal to the minimum.
durationIntervalErrorStrict(mn, mx) ==
    IF mn <= 0 THEN ErrMinNotPositive
    ELSE IF mx <= 0 THEN ErrMaxNotPositive
    ELSE IF mx <= mn THEN ErrMaxBelowMin
    ELSE ErrNil

\* Checks without the comparison of the two bounds.
durationIntervalErrorNoOrder(mn, mx) ==
    IF mn <= 0 THEN ErrMinNotPositive
    ELSE IF mx <= 0 THEN ErrMaxNotPositive
    ELSE ErrNil

\* Checks without the tests of the signs.
durationIntervalErrorNoSign(mn, mx) ==
    IF mx < mn THEN ErrMaxBelowMin ELSE ErrNil

\* The three checks at the head of SetDurationInterval, in their order.
durationIntervalError(mn, mx) ==
    IF mn <= 0 THEN ErrMinNotPositive
    ELSE IF mx <= 0 THEN ErrMaxNotPositive
    ELSE IF mx < mn THEN ErrMaxBelowMin
    ELSE ErrNil

\* A check of the upper end of the range only.
errorsPercentageErrorUpperOnly(p) ==
    IF p > MaxPercentage THEN ErrNotPercentage ELSE ErrNil

\* The check at the head of SetErrorsPercentage.
errorsPercentageError(p) ==
    IF p < MinPercentage \/ p > MaxPercentage THEN ErrNotPercentage ELSE ErrNil

\* sync.RWMutex.  A goroutine at a c.mu.Lock() has announced itself: while a
\* writer waits or holds the lock, RLock blocks.
WriterPending == \E u \in Threads : lpc[u] \in {"sdi_lock", "sep_lock"}

\* The goroutines blocked in c.mu.RLock() while a writer holds the lock.
BlockedReaders == {u \in Threads : lpc[u] = "di_rlock"}

\* A read lock that excludes no writer.
CanRLockAlways == TRUE

\* Lock needs no writer and no reader; RLock needs no writer, holding or
\* waiting.
CanLock == mu.writer = NoWriter /\ mu.readers = {}
CanRLock == mu.writer = NoWriter /\ ~WriterPending

\* Unlock hands the lock to every reader blocked in RLock before the next
\* writer may take it: t goes on to ret, the blocked readers hold the lock.
AfterUnlock(t, ret) ==
    [u \in Threads |-> IF u = t THEN ret
                       ELSE IF u \in BlockedReaders THEN "di_readMin"
                       ELSE lpc[u]]

\* buildLimitsConfig: the Config is shared only if both setters accepted the
\* values of the flags; it then holds them.
InitLimits ==
    /\ minDuration \in DurationArgs
    /\ maxDuration \in DurationArgs
    /\ errorsPercentage \in PercentageArgs
    /\ durationIntervalError(minDuration, maxDuration) = ErrNil
    /\ errorsPercentageError(errorsPercentage) = ErrNil
    /\ mu = [writer |-> NoWriter, readers |-> {}]
    /\ lpc = [t \in Threads |-> "idle"]
    /\ argMin = [t \in Threads |-> 0]
    /\ argMax = [t \in Threads |-> 0]
    /\ argPct = [t \in Threads |-> 0]
    /\ retErr = [t \in Threads |-> ErrNil]
    /\ retMin = [t \in Threads |-> 0]
    /\ retMax = [t \in Threads |-> 0]
    /\ retPct = [t \in Threads |-> 0]
    /\ lastSet = <<minDuration, maxDuration>>

\* ---- func (c *Config) DurationInterval() (int, int)

CallDurationInterval(t) ==
    /\ lpc[t] = "idle"
    /\ lpc' = [lpc EXCEPT ![t] = "di_rlock"]
    /\ UNCHANGED <<outsideLimits, minDuration, maxDuration, errorsPercentage, mu,
                   argMin, argMax, argPct, retErr, retMin, retMax, retPct,
                   lastSet>>

\* c.mu.RLock()
DurationIntervalRLock(t) ==
    /\ lpc[t] = "di_rlock"
    /\ CanRLock
    /\ mu' = [mu EXCEPT !.readers = @ \cup {t}]
    /\ lpc' = [lpc EXCEPT ![t] = "di_readMin"]
    /\ UNCHANGED <<outsideLimits, minDuration, maxDuration, errorsPercentage,
                   argMin, argMax, argPct, retErr, retMin, retMax, retPct,
                   lastSet>>

\* return c.minDuration, ...
DurationIntervalReadMin(t) ==
    /\ lpc[t] = "di_readMin"
    /\ retMin' = [retMin EXCEPT ![t] = minDuration]
    /\ lpc' = [lpc EXCEPT ![t] = "di_readMax"]
    /\ UNCHANGED <<outsideLimits, minDuration, maxDuration, errorsPercentage, mu,
                   argMin, argMax, argPct, retErr, retMax, retPct, lastSet>>

\* return ..., c.maxDuration
DurationIntervalReadMax(t) ==
    /\ lpc[t] = "di_readMax"
    /\ retMax' = [retMax EXCEPT ![t] = maxDuration]
    /\ lpc' = [lpc EXCEPT ![t] = "di_runlock"]
    /\ UNCHANGED <<outsideLimits, minDuration, maxDuration, errorsPercentage, mu,
                   argMin, argMax, argPct, retErr, retMin, retPct, lastSet>>

\* The deferred c.mu.RUnlock(); the call returns.
DurationIntervalRUnlock(t) ==
    /\ lpc[t] = "di_runlock"
    /\ mu' = [mu EXCEPT !.readers = @ \ {t}]
    /\ lpc' = [lpc EXCEPT ![t] = "di_ret"]
    /\ UNCHANGED <<outsideLimits, minDuration, maxDuration, errorsPercentage,
                   argMin, argMax, argPct, retErr, retMin, retMax, retPct,
                   lastSet>>

\* ---- func (c *Config) SetDurationInterval(minDuration, maxDuration int) error

\* The call and its three checks: a rejected pair returns at once.
CallSetDurationInterval(t) ==
    /\ lpc[t] = "idle"
    /\ \E p \in DurationPairs :
          /\ argMin' = [argMin EXCEPT ![t] = p[1]]
          /\ argMax' = [argMax EXCEPT ![t] = p[2]]
          /\ retErr' = [retErr EXCEPT ![t] = durationIntervalError(p[1], p[2])]
          /\ lpc' = [lpc EXCEPT ![t] =
                       IF durationIntervalError(p[1], p[2]) = ErrNil
                       THEN "sdi_lock" ELSE "sdi_ret"]
    /\ UNCHANGED <<outsideLimits, minDuration, maxDuration, errorsPercentage, mu,
                   argPct, retMin, retMax, retPct, lastSet>>

\* c.mu.Lock()
SetDurationIntervalLock(t) ==
    /\ lpc[t] = "sdi_lock"
    /\ CanLock
    /\ mu' = [mu EXCEPT !.writer = t]
    /\ lpc' = [lpc EXCEPT ![t] = "sdi_writeMin"]
    /\ UNCHANGED <<outsideLimits, minDuration, maxDuration, errorsPercentage,
                   argMin, argMax, argPct, retErr, retMin, retMax, retPct,
                   lastSet>>

\* c.minDuration = minDuration
SetDurationIntervalWriteMin(t) ==
    /\ lpc[t] = "sdi_writeMin"
    /\ minDuration' = argMin[t]
    /\ lpc' = [lpc EXCEPT ![t] = "sdi_writeMax"]
    /\ UNCHANGED <<outsideLimits, maxDuration, errorsPercentage, mu, argMin, argMax,
                   argPct, retErr, retMin, retMax, retPct, lastSet>>

\* c.maxDuration = maxDuration
SetDurationIntervalWriteMax(t) ==
    /\ lpc[t] = "sdi_writeMax"
    /\ maxDuration' = argMax[t]
    /\ lastSet' = <<argMin[t], argMax[t]>>
    /\ lpc' = [lpc EXCEPT ![t] = "sdi_unlock"]
    /\ UNCHANGED <<outsideLimits, minDuration, errorsPercentage, mu, argMin, argMax,
                   argPct, retErr, retMin, retMax, retPct>>

\* return nil, and the deferred c.mu.Unlock().
SetDurationIntervalUnlock(t) ==
    /\ lpc[t] = "sdi_unlock"
    /\ mu' = [writer |-> NoWriter, readers |-> BlockedReaders]
    /\ retErr' = [retErr EXCEPT ![t] = ErrNil]
    /\ lpc' = AfterUnlock(t, "sdi_ret")
    /\ UNCHANGED <<outsideLimits, minDuration, maxDuration, errorsPercentage,
                   argMin, argMax, argPct, retMin, retMax, retPct, lastSet>>

\* ---- func (c *Config) ErrorsPercentage() int

CallErrorsPercentage(t) ==
    /\ lpc[t] = "idle"
    /\ lpc' = [lpc EXCEPT ![t] = "ep_read"]
    /\ UNCHANGED <<outsideLimits, minDuration, maxDuration, errorsPercentage, mu,
                   argMin, argMax, argPct, retErr, retMin, retMax, retPct,
                   lastSet>>

\* return c.errorsPercentage: the field is read without taking c.mu.
ErrorsPercentageRead(t) ==
    /\ lpc[t] = "ep_read"
    /\ retPct' = [retPct EXCEPT ![t] = errorsPercentage]
    /\ lpc' = [lpc EXCEPT ![t] = "ep_ret"]
    /\ UNCHANGED <<outsideLimits, minDuration, maxDuration, errorsPercentage, mu,
                   argMin, argMax, argPct, retErr, retMin, retMax, lastSet>>

\* ---- func (c *Config) SetErrorsPercentage(errorsPercentage int) error

\* The call and its check: a rejected value returns at once.
CallSetErrorsPercentage(t) ==
    /\ lpc[t] = "idle"
    /\ \E p \in PercentageArgs :
          /\ argPct' = [argPct EXCEPT ![t] = p]
          /\ retErr' = [retErr EXCEPT ![t] = errorsPercentageError(p)]
          /\ lpc' = [lpc EXCEPT ![t] =
                       IF errorsPercentageError(p) = ErrNil
                       THEN "sep_lock" ELSE "sep_ret"]
    /\ UNCHANGED <<outsideLimits, minDuration, maxDuration, errorsPercentage, mu,
                   argMin, argMax, retMin, retMax, retPct, lastSet>>

\* c.mu.Lock()
SetErrorsPercentageLock(t) ==
    /\ lpc[t] = "sep_lock"
    /\ CanLock
    /\ mu' = [mu EXCEPT !.writer = t]
    /\ lpc' = [lpc EXCEPT ![t] = "sep_write"]
    /\ UNCHANGED <<outsideLimits, minDuration, maxDuration, errorsPercentage,
                   argMin, argMax, argPct, retErr, retMin, retMax, retPct,
                   lastSet>>

\* c.errorsPercentage = errorsPercentage
SetErrorsPercentageWrite(t) ==
    /\ lpc[t] = "sep_write"
    /\ errorsPercentage' = argPct[t]
    /\ lpc' = [lpc EXCEPT ![t] = "sep_unlock"]
    /\ UNCHANGED <<outsideLimits, minDuration, maxDuration, mu, argMin, argMax,
                   argPct, retErr, retMin, retMax, retPct, lastSet>>

\* A SetErrorsPercentage that returns without releasing c.mu.
SetErrorsPercentageNoUnlock(t) ==
    /\ lpc[t] = "sep_unlock"
    /\ retErr' = [retErr EXCEPT ![t] = ErrNil]
    /\ lpc' = [lpc EXCEPT ![t] = "sep_ret"]
    /\ UNCHANGED <<outsideLimits, minDuration, maxDuration, errorsPercentage, mu,
                   argMin, argMax, argPct, retMin, retMax, retPct, lastSet>>

\* return nil, and the deferred c.mu.Unlock().
SetErrorsPercentageUnlock(t) ==
    /\ lpc[t] = "sep_unlock"
    /\ mu' = [writer |-> NoWriter, readers |-> BlockedReaders]
    /\ retErr' = [retErr EXCEPT ![t] = ErrNil]
    /\ lpc' = AfterUnlock(t, "sep_ret")
    /\ UNCHANGED <<outsideLimits, minDuration, maxDuration, errorsPercentage,
                   argMin, argMax, argPct, retMin, retMax, retPct, lastSet>>

\* The caller has its result and goes on to its next call.
Return(t) ==
    /\ lpc[t] \in {"di_ret", "sdi_ret", "ep_ret", "sep_ret"}
    /\ lpc' = [lpc EXCEPT ![t] = "idle"]
    /\ argMin' = [argMin EXCEPT ![t] = 0]
    /\ argMax' = [argMax EXCEPT ![t] = 0]
    /\ argPct' = [argPct EXCEPT ![t] = 0]
    /\ retErr' = [retErr EXCEPT ![t] = ErrNil]
    /\ retMin' = [retMin EXCEPT ![t] = 0]
    /\ retMax' = [retMax EXCEPT ![t] = 0]
    /\ retPct' = [retPct EXCEPT ![t] = 0]
    /\ UNCHANGED <<outsideLimits, minDuration, maxDuration, errorsPercentage, mu,
                   lastSet>>

LimitsNext ==
    \E t \in Threads :
        \/ CallDurationInterval(t)
        \/ DurationIntervalRLock(t)
        \/ DurationIntervalReadMin(t)
        \/ DurationIntervalReadMax(t)
        \/ DurationIntervalRUnlock(t)
        \/ CallSetDurationInterval(t)
        \/ SetDurationIntervalLock(t)
        \/ SetDurationIntervalWriteMin(t)
        \/ SetDurationIntervalWriteMax(t)
        \/ SetDurationIntervalUnlock(t)
        \/ CallErrorsPercentage(t)
        \/ ErrorsPercentageRead(t)
        \/ CallSetErrorsPercentage(t)
        \/ SetErrorsPercentageLock(t)
        \/ SetErrorsPercentageWrite(t)
        \/ SetErrorsPercentageUnlock(t)
        \/ Return(t)

\* var config limits.Config: the zero value, with no caller.  The state of
\* the store while only the HTTP runtime is looked at.
LimitsAtRest ==
    /\ minDuration = 0
    /\ maxDuration = 0
    /\ errorsPercentage = 0
    /\ mu = [writer |-> NoWriter, readers |-> {}]
    /\ lpc = [t \in Threads |-> "idle"]
    /\ argMin = [t \in Threads |-> 0]
    /\ argMax = [t \in Threads |-> 0]
    /\ argPct = [t \in Threads |-> 0]
    /\ retErr = [t \in Threads |-> ErrNil]
    /\ retMin = [t \in Threads |-> 0]
    /\ retMax = [t \in Threads |-> 0]
    /\ retPct = [t \in Threads |-> 0]
    /\ lastSet = <<0, 0>>

(***************************************************************************)
(* httprun.Server.run                                                      *)
(***************************************************************************)

\* The state at the entry of run: the three channels are made, nothing runs yet.
\* The HTTPServer is any implementation of the interface: one that fails to
\* start or serves until Shutdown, and whose Shutdown drains in some time.
InitRun ==
    /\ ctxDone = FALSE
    /\ shutdownTimeout \in 0..MaxTimeout
    /\ serveFailsOnOwn \in BOOLEAN
    /\ serveStopErr \in {ErrNil, ErrServe, ErrServerClosed}
    /\ shutdownResult \in {ErrNil, ErrShutdown}
    /\ drainTime \in (0..MaxDrain) \cup {Never}
    /\ shutdownCalls = 0
    /\ serveReturned = FALSE
    /\ shutdownReturned = 0
    /\ ctxTimeout = NoDeadline
    /\ elapsed = 0
    /\ errors = <<>>
    /\ errorsClosed = FALSE
    /\ closeCount = 0
    /\ serveDone = FALSE
    /\ shutdownDone = FALSE
    /\ result = <<>>
    /\ serveErr = ErrNil
    /\ shutdownErr = ErrNil
    /\ panicked = FALSE
    /\ pcServe = "start"
    /\ pcWatch = "select"
    /\ pcCloser = "waitShutdown"
    /\ pcRun = "range"

\* The caller cancels the lifecycle context; it may do so at any moment.
Cancel ==
    /\ ~ctxDone
    /\ ctxDone' = TRUE
    /\ UNCHANGED <<outsideRun, envVars, shutdownCalls, serveReturned, shutdownReturned,
                   ctxTimeout, elapsed, errors, errorsClosed, closeCount,
                   serveDone, shutdownDone, result, serveErr, shutdownErr,
                   panicked, pcServe, pcWatch, pcCloser, pcRun>>

\* ---- the serve goroutine: defer close(serveDone); errors <- serve()

\* serve() is called.
ServeCall ==
    /\ pcServe = "start"
    /\ ~panicked
    /\ pcServe' = "serving"
    /\ UNCHANGED <<outsideRun, ctxDone, envVars, shutdownCalls, serveReturned,
                   shutdownReturned, ctxTimeout, elapsed, errors, errorsClosed,
                   closeCount, serveDone, shutdownDone, result, serveErr,
                   shutdownErr, panicked, pcWatch, pcCloser, pcRun>>

\* serve() fails on its own (it cannot bind, the listener breaks).
ServeFail ==
    /\ pcServe = "serving"
    /\ ~panicked
    /\ serveFailsOnOwn
    /\ shutdownCalls = 0
    /\ serveErr' = ErrServe
    /\ serveReturned' = TRUE
    /\ pcServe' = "send"
    /\ UNCHANGED <<outsideRun, ctxDone, envVars, shutdownCalls, shutdownReturned,
                   ctxTimeout, elapsed, errors, errorsClosed, closeCount,
                   serveDone, shutdownDone, result, shutdownErr, panicked,
                   pcWatch, pcCloser, pcRun>>

\* serve() returns because Shutdown was invoked.
ServeStop ==
    /\ pcServe = "serving"
    /\ ~panicked
    /\ shutdownCalls > 0
    /\ serveErr' = serveStopErr
    /\ serveReturned' = TRUE
    /\ pcServe' = "send"
    /\ UNCHANGED <<outsideRun, ctxDone, envVars, shutdownCalls, shutdownReturned,
                   ctxTimeout, elapsed, errors, errorsClosed, closeCount,
                   serveDone, shutdownDone, result, shutdownErr, panicked,
                   pcWatch, pcCloser, pcRun>>

\* errors <- (the value serve returned).  A send on a closed channel panics;
\* a send on a full channel blocks.
ServeSend ==
    /\ pcServe = "send"
    /\ ~panicked
    /\ \/ /\ errorsClosed
          /\ panicked' = TRUE
          /\ UNCHANGED <<errors, pcServe>>
       \/ /\ ~errorsClosed
          /\ Len(errors) < ErrorsCap
          /\ errors' = Append(errors, serveErr)
          /\ pcServe' = "close"
          /\ UNCHANGED panicked
    /\ UNCHANGED <<outsideRun, ctxDone, envVars, shutdownCalls, serveReturned,
                   shutdownReturned, ctxTimeout, elapsed, errorsClosed,
                   closeCount, serveDone, shutdownDone, result, serveErr,
                   shutdownErr, pcWatch, pcCloser, pcRun>>

\* The deferred close(serveDone); the goroutine ends.
ServeClose ==
    /\ pcServe = "close"
    /\ ~panicked
    /\ serveDone' = TRUE
    /\ pcServe' = "done"
    /\ UNCHANGED <<outsideRun, ctxDone, envVars, shutdownCalls, serveReturned,
                   shutdownReturned, ctxTimeout, elapsed, errors, errorsClosed,
                   closeCount, shutdownDone, result, serveErr, shutdownErr,
                   panicked, pcWatch, pcCloser, pcRun>>

\* ---- the watcher goroutine: defer close(shutdownDone); select {...}

\* A shutdownGracefully that hands Shutdown a context without deadline.
shutdownGracefullyNoTimeout == NoDeadline

\* A shutdownGracefully that takes a zero ShutdownTimeout for the longest
\* grace period.
shutdownGracefullyDefaultGrace ==
    IF shutdownTimeout = 0 THEN MaxTimeout ELSE shutdownTimeout

\* context.WithTimeout(context.Background(), s.ShutdownTimeout): the timeout of
\* the context shutdownGracefully hands to HTTPServer.Shutdown.
shutdownGracefullyTimeout == shutdownTimeout

\* A watcher that shuts the server down although serve has ended.
WatchServeDoneThenShutdown ==
    /\ pcWatch = "select"
    /\ ~panicked
    /\ serveDone
    /\ ctxTimeout' = shutdownTimeout
    /\ elapsed' = 0
    /\ shutdownCalls' = shutdownCalls + 1
    /\ pcWatch' = "inShutdown"
    /\ UNCHANGED <<outsideRun, ctxDone, envVars, serveReturned, shutdownReturned,
                   errors, errorsClosed, closeCount, serveDone, shutdownDone,
                   result, serveErr, shutdownErr, panicked, pcServe, pcCloser,
                   pcRun>>

\* case <-serveDone: return, and the deferred close(shutdownDone).
WatchServeDone ==
    /\ pcWatch = "select"
    /\ ~panicked
    /\ serveDone
    /\ shutdownDone' = TRUE
    /\ pcWatch' = "done"
    /\ UNCHANGED <<outsideRun, ctxDone, envVars, shutdownCalls, serveReturned,
                   shutdownReturned, ctxTimeout, elapsed, errors, errorsClosed,
                   closeCount, serveDone, result, serveErr, shutdownErr,
                   panicked, pcServe, pcCloser, pcRun>>

\* A watcher that returns on cancellation without shutting the server down.
WatchCtxDoneNoShutdown ==
    /\ pcWatch = "select"
    /\ ~panicked
    /\ ctxDone
    /\ shutdownDone' = TRUE
    /\ pcWatch' = "done"
    /\ UNCHANGED <<outsideRun, ctxDone, envVars, shutdownCalls, serveReturned,
                   shutdownReturned, ctxTimeout, elapsed, errors, errorsClosed,
                   closeCount, serveDone, result, serveErr, shutdownErr,
                   panicked, pcServe, pcCloser, pcRun>>

\* case <-ctx.Done(): shutdownGracefully makes the context and invokes
\* HTTPServer.Shutdown.  When both cases are ready Go picks either.
WatchCtxDone ==
    /\ pcWatch = "select"
    /\ ~panicked
    /\ ctxDone
    /\ ctxTimeout' = shutdownGracefullyTimeout
    /\ elapsed' = 0
    /\ shutdownCalls' = shutdownCalls + 1
    /\ pcWatch' = "inShutdown"
    /\ UNCHANGED <<outsideRun, ctxDone, envVars, serveReturned, shutdownReturned, errors,
                   errorsClosed, closeCount, serveDone, shutdownDone, result,
                   serveErr, shutdownErr, panicked, pcServe, pcCloser, pcRun>>

\* The server's connections are idle: the drain is over.
DrainFinished == drainTime # Never /\ elapsed >= drainTime

\* The context handed to Shutdown is past its deadline.
CtxExpired == ctxTimeout # NoDeadline /\ elapsed >= ctxTimeout

\* Time passes while Shutdown waits for the drain or for its context.
Tick ==
    /\ pcWatch = "inShutdown"
    /\ ~panicked
    /\ ~DrainFinished
    /\ ~CtxExpired
    /\ elapsed < MaxTimeout + MaxDrain
    /\ elapsed' = elapsed + 1
    /\ UNCHANGED <<outsideRun, ctxDone, envVars, shutdownCalls, serveReturned,
                   shutdownReturned, ctxTimeout, errors, errorsClosed,
                   closeCount, serveDone, shutdownDone, result, serveErr,
                   shutdownErr, panicked, pcServe, pcWatch, pcCloser, pcRun>>

\* HTTPServer.Shutdown returns: its own result once the drain is over, the
\* context's error when the context expires first.
ShutdownReturn ==
    /\ pcWatch = "inShutdown"
    /\ ~panicked
    /\ \/ /\ DrainFinished
          /\ shutdownErr' = shutdownResult
       \/ /\ ~DrainFinished
          /\ CtxExpired
          /\ shutdownErr' = ErrDeadlineExceeded
    /\ shutdownReturned' = shutdownReturned + 1
    /\ pcWatch' = "send"
    /\ UNCHANGED <<outsideRun, ctxDone, envVars, shutdownCalls, serveReturned, ctxTimeout,
                   elapsed, errors, errorsClosed, closeCount, serveDone,
                   shutdownDone, result, serveErr, panicked, pcServe, pcCloser,
                   pcRun>>

\* errors <- (the value shutdownGracefully returned).
WatchSend ==
    /\ pcWatch = "send"
    /\ ~panicked
    /\ \/ /\ errorsClosed
          /\ panicked' = TRUE
          /\ UNCHANGED <<errors, pcWatch>>
       \/ /\ ~errorsClosed
          /\ Len(errors) < ErrorsCap
          /\ errors' = Append(errors, shutdownErr)
          /\ pcWatch' = "close"
          /\ UNCHANGED panicked
    /\ UNCHANGED <<outsideRun, ctxDone, envVars, shutdownCalls, serveReturned,
                   shutdownReturned, ctxTimeout, elapsed, errorsClosed,
                   closeCount, serveDone, shutdownDone, result, serveErr,
                   shutdownErr, pcServe, pcCloser, pcRun>>

\* A watcher that goes back to its select after the send.
WatchCloseLoop ==
    /\ pcWatch = "close"
    /\ ~panicked
    /\ pcWatch' = "select"
    /\ UNCHANGED <<outsideRun, ctxDone, envVars, shutdownCalls, serveReturned,
                   shutdownReturned, ctxTimeout, elapsed, errors, errorsClosed,
                   closeCount, serveDone, shutdownDone, result, serveErr,
                   shutdownErr, panicked, pcServe, pcCloser, pcRun>>

\* The deferred close(shutdownDone) after the send; the goroutine ends.
WatchClose ==
    /\ pcWatch = "close"
    /\ ~panicked
    /\ shutdownDone' = TRUE
    /\ pcWatch' = "done"
    /\ UNCHANGED <<outsideRun, ctxDone, envVars, shutdownCalls, serveReturned,
                   shutdownReturned, ctxTimeout, elapsed, errors, errorsClosed,
                   closeCount, serveDone, result, serveErr, shutdownErr,
                   panicked, pcServe, pcCloser, pcRun>>

\* ---- the closer goroutine: defer close(errors); <-shutdownDone; <-serveDone

\* A closer that does not wait for the watcher goroutine.
CloserSkipShutdown ==
    /\ pcCloser = "waitShutdown"
    /\ ~panicked
    /\ pcCloser' = "waitServe"
    /\ UNCHANGED <<outsideRun, ctxDone, envVars, shutdownCalls, serveReturned,
                   shutdownReturned, ctxTimeout, elapsed, errors, errorsClosed,
                   closeCount, serveDone, shutdownDone, result, serveErr,
                   shutdownErr, panicked, pcServe, pcWatch, pcRun>>

\* <-shutdownDone
CloserWaitShutdown ==
    /\ pcCloser = "waitShutdown"
    /\ ~panicked
    /\ shutdownDone
    /\ pcCloser' = "waitServe"
    /\ UNCHANGED <<outsideRun, ctxDone, envVars, shutdownCalls, serveReturned,
                   shutdownReturned, ctxTimeout, elapsed, errors, errorsClosed,
                   closeCount, serveDone, shutdownDone, result, serveErr,
                   shutdownErr, panicked, pcServe, pcWatch, pcRun>>

\* A closer that does not wait for the serve goroutine.
CloserSkipServe ==
    /\ pcCloser = "waitServe"
    /\ ~panicked
    /\ pcCloser' = "close"
    /\ UNCHANGED <<outsideRun, ctxDone, envVars, shutdownCalls, serveReturned,
                   shutdownReturned, ctxTimeout, elapsed, errors, errorsClosed,
                   closeCount, serveDone, shutdownDone, result, serveErr,
                   shutdownErr, panicked, pcServe, pcWatch, pcRun>>

\* <-serveDone
CloserWaitServe ==
    /\ pcCloser = "waitServe"
    /\ ~panicked
    /\ serveDone
    /\ pcCloser' = "close"
    /\ UNCHANGED <<outsideRun, ctxDone, envVars, shutdownCalls, serveReturned,
                   shutdownReturned, ctxTimeout, elapsed, errors, errorsClosed,
                   closeCount, serveDone, shutdownDone, result, serveErr,
                   shutdownErr, panicked, pcServe, pcWatch, pcRun>>

\* The deferred close(errors); the goroutine ends.  Closing a closed channel
\* panics.
CloserClose ==
    /\ pcCloser = "close"
    /\ ~panicked
    /\ errorsClosed' = TRUE
    /\ closeCount' = closeCount + 1
    /\ panicked' = errorsClosed
    /\ pcCloser' = "done"
    /\ UNCHANGED <<outsideRun, ctxDone, envVars, shutdownCalls, serveReturned,
                   shutdownReturned, ctxTimeout, elapsed, errors, serveDone,
                   shutdownDone, result, serveErr, shutdownErr, pcServe,
                   pcWatch, pcRun>>

\* ---- run itself: for err := range errors {...}; return result

\* A range loop that keeps nil values too.
RunReceiveKeepNil ==
    /\ pcRun = "range"
    /\ ~panicked
    /\ Len(errors) > 0
    /\ errors' = Tail(errors)
    /\ result' = Append(result, Head(errors))
    /\ UNCHANGED <<outsideRun, ctxDone, envVars, shutdownCalls, serveReturned,
                   shutdownReturned, ctxTimeout, elapsed, errorsClosed,
                   closeCount, serveDone, shutdownDone, serveErr, shutdownErr,
                   panicked, pcServe, pcWatch, pcCloser, pcRun>>

\* A range loop that keeps only the last error it received.
RunReceiveOverwrite ==
    /\ pcRun = "range"
    /\ ~panicked
    /\ Len(errors) > 0
    /\ errors' = Tail(errors)
    /\ result' = IF Head(errors) # ErrNil THEN <<Head(errors)>> ELSE result
    /\ UNCHANGED <<outsideRun, ctxDone, envVars, shutdownCalls, serveReturned,
                   shutdownReturned, ctxTimeout, elapsed, errorsClosed,
                   closeCount, serveDone, shutdownDone, serveErr, shutdownErr,
                   panicked, pcServe, pcWatch, pcCloser, pcRun>>

\* A range loop that drops the sentinel http.ErrServerClosed.
RunReceiveDropClosed ==
    /\ pcRun = "range"
    /\ ~panicked
    /\ Len(errors) > 0
    /\ errors' = Tail(errors)
    /\ result' = IF Head(errors) \notin {ErrNil, ErrServerClosed}
                 THEN Append(result, Head(errors)) ELSE result
    /\ UNCHANGED <<outsideRun, ctxDone, envVars, shutdownCalls, serveReturned,
                   shutdownReturned, ctxTimeout, elapsed, errorsClosed,
                   closeCount, serveDone, shutdownDone, serveErr, shutdownErr,
                   panicked, pcServe, pcWatch, pcCloser, pcRun>>

\* One iteration of the range loop: receive, keep the value if it is not nil.
RunReceive ==
    /\ pcRun = "range"
    /\ ~panicked
    /\ Len(errors) > 0
    /\ errors' = Tail(errors)
    /\ result' = IF Head(errors) # ErrNil THEN Append(result, Head(errors))
                                         ELSE result
    /\ UNCHANGED <<outsideRun, ctxDone, envVars, shutdownCalls, serveReturned,
                   shutdownReturned, ctxTimeout, elapsed, errorsClosed,
                   closeCount, serveDone, shutdownDone, serveErr, shutdownErr,
                   panicked, pcServe, pcWatch, pcCloser, pcRun>>

\* The channel is closed and drained: the loop ends and run returns result.
RunReturn ==
    /\ pcRun = "range"
    /\ ~panicked
    /\ Len(errors) = 0
    /\ errorsClosed
    /\ pcRun' = "returned"
    /\ UNCHANGED <<outsideRun, ctxDone, envVars, shutdownCalls, serveReturned,
                   shutdownReturned, ctxTimeout, elapsed, errors, errorsClosed,
                   closeCount, serveDone, shutdownDone, result, serveErr,
                   shutdownErr, panicked, pcServe, pcWatch, pcCloser>>

RunNext ==
    \/ Cancel
    \/ ServeCall
    \/ ServeFail
    \/ ServeStop
    \/ ServeSend
    \/ ServeClose
    \/ WatchServeDone
    \/ WatchCtxDone
    \/ Tick
    \/ ShutdownReturn
    \/ WatchSend
    \/ WatchClose
    \/ CloserWaitShutdown
    \/ CloserWaitServe
    \/ CloserClose
    \/ RunReceive
    \/ RunReturn

(***************************************************************************)
(* metrics.Generator.Run                                                   *)
(***************************************************************************)

\* rand.Intn(n) for n > 0: a value of [0, n).  It panics for n <= 0.
Intn(n) == 0 .. (n - 1)

\* A loop that keeps the maximum it found when it was called.
ConfigMaxDurationAtStart == startMax

\* g.Config.MaxDuration()
ConfigMaxDuration == maxDuration

\* g.Config.ErrorsPercentage()
ConfigErrorsPercentage == errorsPercentage

\* A draw that counts as an error when it equals the percentage.
isErrorInclusive(draw, percentage) == draw <= percentage

\* rand.Intn(100) < g.Config.ErrorsPercentage()
isError(draw, percentage) == draw < percentage

\* The values the control API sends to SetErrorsPercentage while Run loops.
GenPercentageArgs ==
    {MinPercentage - 1, MinPercentage, MaxPercentage \div 2, MaxPercentage,
     MaxPercentage + 1}

\* Generator.Run not called.
GenAtRest ==
    /\ gpc = "idle"
    /\ genCtxDone = FALSE
    /\ genResult = ErrNil
    /\ timerFired = FALSE
    /\ iterations = 0
    /\ observed = NoObservation
    /\ errorsInc = 0
    /\ ignored = 0
    /\ startMax = 0
    /\ cancelledAt = NotCancelled

\* generator.Run(ctx), called by the orchestrator with the Config it built.
InitGen ==
    /\ gpc = "observe"
    /\ genCtxDone = FALSE
    /\ genResult = ErrNil
    /\ timerFired = FALSE
    /\ iterations = 0
    /\ observed = NoObservation
    /\ errorsInc = 0
    /\ ignored = 0
    /\ startMax = maxDuration
    /\ cancelledAt = NotCancelled

\* The lifecycle context is cancelled (a signal, or the orchestrator's cancel).
GenCancel ==
    /\ gpc # "idle"
    /\ ~genCtxDone
    /\ genCtxDone' = TRUE
    /\ cancelledAt' = iterations
    /\ UNCHANGED <<outsideGen, limitsVars, gpc, genResult, timerFired, iterations,
                   observed, errorsInc, ignored, startMax>>

\* A loop that looks at the context before it observes.
GeneratorObserveCheckFirst ==
    /\ gpc = "observe"
    /\ IF genCtxDone
       THEN /\ gpc' = "returned"
            /\ genResult' = ErrCanceled
            /\ UNCHANGED <<observed, iterations>>
       ELSE /\ \E draw \in Intn(ConfigMaxDuration) : observed' = draw
            /\ iterations' = iterations + 1
            /\ gpc' = "errors"
            /\ UNCHANGED genResult
    /\ UNCHANGED <<outsideGen, limitsVars, genCtxDone, timerFired,
                   errorsInc, ignored, startMax, cancelledAt>>

\* g.Duration.Observe(float64(rand.Intn(g.Config.MaxDuration())))
GeneratorObserve ==
    /\ gpc = "observe"
    /\ IF ConfigMaxDuration <= 0
       THEN /\ gpc' = "panicked"
            /\ UNCHANGED <<observed, iterations>>
       ELSE /\ \E draw \in Intn(ConfigMaxDuration) : observed' = draw
            /\ iterations' = iterations + 1
            /\ gpc' = "errors"
    /\ UNCHANGED <<outsideGen, limitsVars, genCtxDone, genResult, timerFired,
                   errorsInc, ignored, startMax,
                   cancelledAt>>

\* if rand.Intn(100) < g.Config.ErrorsPercentage() { g.Errors.Inc() }, and
\* the evaluation of time.After(1 * time.Second) on entering the select.
GeneratorErrors ==
    /\ gpc = "errors"
    /\ \E draw \in Intn(ErrorsDrawBound) :
          errorsInc' = IF isError(draw, ConfigErrorsPercentage)
                       THEN errorsInc + 1 ELSE errorsInc
    /\ timerFired' = FALSE
    /\ gpc' = "select"
    /\ UNCHANGED <<outsideGen, limitsVars, genCtxDone, genResult, iterations,
                   observed, ignored, startMax,
                   cancelledAt>>

\* The timer of time.After delivers its value, one second after the select
\* was entered: Run is blocked in the select then, no case having been ready
\* when it arrived.  (A timer that fires just after the cancellation leaves
\* the same two cases ready as one that fires just before it.)
TimeAfter ==
    /\ gpc = "select"
    /\ ~timerFired
    /\ ~genCtxDone
    /\ timerFired' = TRUE
    /\ UNCHANGED <<outsideGen, limitsVars, gpc, genCtxDone, genResult, iterations,
                   observed, errorsInc, ignored, startMax,
                   cancelledAt>>

\* case <-time.After(1 * time.Second): continue
GeneratorContinue ==
    /\ gpc = "select"
    /\ timerFired
    /\ iterations < MaxIterations
    /\ gpc' = "observe"
    /\ timerFired' = FALSE
    /\ ignored' = IF genCtxDone THEN ignored + 1 ELSE ignored
    /\ UNCHANGED <<outsideGen, limitsVars, genCtxDone, genResult, iterations,
                   observed, errorsInc, startMax,
                   cancelledAt>>

\* A select whose ctx.Done() case starts the next iteration.
GeneratorDoneContinue ==
    /\ gpc = "select"
    /\ genCtxDone
    /\ iterations < MaxIterations
    /\ gpc' = "observe"
    /\ timerFired' = FALSE
    /\ UNCHANGED <<outsideGen, limitsVars, genCtxDone, genResult, iterations,
                   observed, errorsInc, ignored, startMax,
                   cancelledAt>>

\* case <-ctx.Done(): return ctx.Err()
GeneratorDone ==
    /\ gpc = "select"
    /\ genCtxDone
    /\ gpc' = "returned"
    /\ genResult' = ErrCanceled
    /\ UNCHANGED <<outsideGen, limitsVars, genCtxDone, timerFired, iterations,
                   observed, errorsInc, ignored, startMax,
                   cancelledAt>>

\* A whole call of SetDurationInterval made by the control API while Run
\* loops: the checks, and the two writes under c.mu.
GenSetDurationInterval ==
    /\ gpc # "idle"
    /\ \E p \in DurationPairs :
          IF durationIntervalError(p[1], p[2]) = ErrNil
          THEN /\ minDuration' = p[1]
               /\ maxDuration' = p[2]
               /\ lastSet' = p
          ELSE UNCHANGED <<minDuration, maxDuration, lastSet>>
    /\ UNCHANGED <<outsideGen, genVars, callerVars, errorsPercentage>>

\* A whole call of SetErrorsPercentage made by the control API while Run
\* loops.
GenSetErrorsPercentage ==
    /\ gpc # "idle"
    /\ \E p \in GenPercentageArgs :
          errorsPercentage' =
              IF errorsPercentageError(p) = ErrNil THEN p ELSE errorsPercentage
    /\ UNCHANGED <<outsideGen, genVars, callerVars, minDuration, maxDuration,
                   lastSet>>

GenNext ==
    \/ GenCancel
    \/ GeneratorObserve
    \/ GeneratorErrors
    \/ TimeAfter
    \/ GeneratorContinue
    \/ GeneratorDone
    \/ GenSetDurationInterval
    \/ GenSetErrorsPercentage

(***************************************************************************)
(* api.Handler                                                             *)
(***************************************************************************)

\* Text is a sequence of characters.
Digits == <<"0", "1", "2", "3", "4", "5", "6", "7", "8", "9">>

IsDigit(c) == \E i \in 1 .. Len(Digits) : Digits[i] = c

DigitOf(c) == (CHOOSE i \in 1 .. Len(Digits) : Digits[i] = c) - 1

\* unicode.IsSpace, for the characters a body holds
IsSpace(c) == c \in {" ", "\t", "\n", "\r"}

\* strings.TrimSpace
RECURSIVE TrimSpace(_)
TrimSpace(s) ==
    IF s = <<>> THEN s
    ELSE IF IsSpace(Head(s)) THEN TrimSpace(Tail(s))
    ELSE IF IsSpace(s[Len(s)]) THEN TrimSpace(SubSeq(s, 1, Len(s) - 1))
    ELSE s

\* strings.Split(s, sep) for a separator of one character
RECURSIVE Split(_, _)
Split(s, sep) ==
    IF \A i \in 1 .. Len(s) : s[i] # sep
    THEN <<s>>
    ELSE LET i == CHOOSE j \in 1 .. Len(s) :
                      s[j] = sep /\ \A k \in 1 .. (j - 1) : s[k] # sep
         IN  <<SubSeq(s, 1, i - 1)>> \o Split(SubSeq(s, i + 1, Len(s)), sep)

\* A reading of the digits that adds them up.
RECURSIVE DigitsValueSum(_)
DigitsValueSum(d) ==
    IF d = <<>> THEN 0
    ELSE DigitsValueSum(SubSeq(d, 1, Len(d) - 1)) + DigitOf(d[Len(d)])

\* The number a run of decimal digits denotes.
RECURSIVE DigitsValue(_)
DigitsValue(d) ==
    IF d = <<>> THEN 0
    ELSE DigitsValue(SubSeq(d, 1, Len(d) - 1)) * 10 + DigitOf(d[Len(d)])

\* strconv.Atoi: an optional sign, then one digit at least and digits only.
Atoi(s) ==
    LET signed == s # <<>> /\ Head(s) \in {"+", "-"}
        digits == IF signed THEN Tail(s) ELSE s
    IN  IF digits = <<>> \/ \E i \in 1 .. Len(digits) : ~IsDigit(digits[i])
        THEN [err |-> "invalid syntax", value |-> 0]
        ELSE [err |-> ErrNil,
              value |-> IF Head(s) = "-" THEN 0 - DigitsValue(digits)
                        ELSE DigitsValue(digits)]

\* fmt's %d
RECURSIVE FormatNat(_)
FormatNat(n) ==
    IF n < 10 THEN <<Digits[n + 1]>>
    ELSE FormatNat(n \div 10) \o <<Digits[(n % 10) + 1]>>

FormatInt(n) == IF n < 0 THEN <<"-">> \o FormatNat(0 - n) ELSE FormatNat(n)

\* A parseInt that takes what is not a number for 0.
parseIntLenient(value) ==
    [err |-> ErrNil, value |-> Atoi(TrimSpace(value)).value]

\* func parseInt(value string) (int, error)
parseInt(value) ==
    LET parsed == Atoi(TrimSpace(value))
    IN  IF parsed.err # ErrNil
        THEN [err |-> "not a number", value |-> 0]
        ELSE [err |-> ErrNil, value |-> parsed.value]

\* func parseDuration(value string) (int, int, error)
parseDuration(value) ==
    LET parts == Split(value, ",")
    IN  IF Len(parts) # 2
        THEN [err |-> "not a pair of number", min |-> 0, max |-> 0]
        ELSE IF parseInt(parts[1]).err # ErrNil
        THEN [err |-> "minimum is not a number", min |-> 0, max |-> 0]
        ELSE IF parseInt(parts[2]).err # ErrNil
        THEN [err |-> "maximum is not a number", min |-> 0, max |-> 0]
        ELSE [err |-> ErrNil,
              min |-> parseInt(parts[1]).value,
              max |-> parseInt(parts[2]).value]

\* The pairs clients send: those of the store's small range, and pairs of
\* numbers of several digits.
ApiPairs == DurationPairs \cup {<<15, 45>>, <<45, 15>>, <<15, 15>>}

\* The percentages clients send, 150 among them.
ApiPercentages == PercentageArgs \cup {15, 150}

\* "12,34" as the tests send it, and the same with blanks and a newline.
PairText(mn, mx) == FormatInt(mn) \o <<",">> \o FormatInt(mx)

SpacedPairText(mn, mx) ==
    <<" ">> \o FormatInt(mn) \o <<" ", ",", " ">> \o FormatInt(mx) \o <<"\n">>

\* The bodies of the tests that are no pair and no number.
Boom == <<"b", "o", "o", "m">>

MalformedPairs ==
    { <<>>, Boom, <<"1", "2">>, <<"1", ",", "2", ",", "3">>,
      Boom \o <<",", "3", "4">>, <<"1", "2", ",">> \o Boom, <<",">> }

MalformedNumbers == { <<>>, Boom, <<"1", ",", "2">>, <<"1", " ", "2">>, <<"-">> }

\* No pair: what the client of a malformed body meant.
NoPair == <<0, 0>>

\* The requests to PUT /-/config/duration-interval: the body, whether reading
\* it fails (iotest.ErrReader), and the pair the client meant, if any.
SetDurationIntervalRequests ==
    {[handler |-> "handleSetDurationInterval", readErr |-> FALSE,
      body |-> PairText(p[1], p[2]), valid |-> TRUE, pair |-> p] :
        p \in ApiPairs}
    \cup
    {[handler |-> "handleSetDurationInterval", readErr |-> FALSE,
      body |-> SpacedPairText(p[1], p[2]), valid |-> TRUE, pair |-> p] :
        p \in {<<1, 2>>, <<15, 45>>, <<2, 1>>}}
    \cup
    {[handler |-> "handleSetDurationInterval", readErr |-> FALSE,
      body |-> b, valid |-> FALSE, pair |-> NoPair] : b \in MalformedPairs}
    \cup
    {[handler |-> "handleSetDurationInterval", readErr |-> TRUE,
      body |-> <<>>, valid |-> FALSE, pair |-> NoPair]}

\* The requests to PUT /-/config/errors-percentage; pair[1] is the number.
SetErrorsPercentageRequests ==
    {[handler |-> "handleSetErrorsPercentage", readErr |-> FALSE,
      body |-> FormatInt(n), valid |-> TRUE, pair |-> <<n, 0>>] :
        n \in ApiPercentages}
    \cup
    {[handler |-> "handleSetErrorsPercentage", readErr |-> FALSE,
      body |-> <<" ">> \o FormatInt(n) \o <<"\n">>, valid |-> TRUE,
      pair |-> <<n, 0>>] : n \in {15, 150}}
    \cup
    {[handler |-> "handleSetErrorsPercentage", readErr |-> FALSE,
      body |-> b, valid |-> FALSE, pair |-> NoPair] : b \in MalformedNumbers}
    \cup
    {[handler |-> "handleSetErrorsPercentage", readErr |-> TRUE,
      body |-> <<>>, valid |-> FALSE, pair |-> NoPair]}

GetRequest(handler) ==
    [handler |-> handler, readErr |-> FALSE, body |-> <<>>, valid |-> TRUE,
     pair |-> NoPair]

\* fmt.Fprintln(w, "OK")
WriteOK == [code |-> StatusOK, body |-> <<"O", "K", "\n">>]

\* httpError(w, code, format, args...): the status and the message
httpError(code, message) == [code |-> code, body |-> <<message, "\n">>]

NoSetter == [name |-> "none", err |-> ErrNil]

\* No request served yet.
InitApi ==
    /\ request = GetRequest("none")
    /\ response = <<>>
    /\ setterCalled = NoSetter
    /\ clientPair = NoPair

\* A SetDurationInterval that stores before it checks.
ApiSetDurationIntervalUnchecked(mn, mx) ==
    /\ minDuration' = mn
    /\ maxDuration' = mx
    /\ lastSet' = <<mn, mx>>

\* h.Config.SetDurationInterval(min, max), a whole call: the two writes under
\* c.mu if the checks pass.
ApiSetDurationInterval(mn, mx) ==
    IF durationIntervalError(mn, mx) = ErrNil
    THEN /\ minDuration' = mn
         /\ maxDuration' = mx
         /\ lastSet' = <<mn, mx>>
    ELSE UNCHANGED <<minDuration, maxDuration, lastSet>>

\* A SetErrorsPercentage that replaces the whole Config by one that holds the
\* new percentage.
ApiSetErrorsPercentageNewConfig(value) ==
    IF errorsPercentageError(value) = ErrNil
    THEN /\ errorsPercentage' = value
         /\ minDuration' = 0
         /\ maxDuration' = 0
         /\ UNCHANGED lastSet
    ELSE UNCHANGED <<errorsPercentage, minDuration, maxDuration, lastSet>>

\* h.Config.SetErrorsPercentage(value), a whole call: the one write to
\* c.errorsPercentage under c.mu if the check passes.
ApiSetErrorsPercentage(value) ==
    /\ errorsPercentage' =
          IF errorsPercentageError(value) = ErrNil THEN value
          ELSE errorsPercentage
    /\ UNCHANGED <<minDuration, maxDuration, lastSet>>

\* func (h *Handler) handleGetDurationInterval
handleGetDurationInterval ==
    /\ request' = GetRequest("handleGetDurationInterval")
    /\ response' = <<[code |-> StatusOK,
                      body |-> FormatInt(minDuration) \o <<",">>
                               \o FormatInt(maxDuration) \o <<"\n">>]>>
    /\ setterCalled' = NoSetter
    /\ UNCHANGED <<outsideApi, minDuration, maxDuration, errorsPercentage,
                   lastSet, clientPair>>

\* func (h *Handler) handleSetDurationInterval
handleSetDurationInterval ==
    \E r \in SetDurationIntervalRequests :
       LET parsed == parseDuration(r.body)
           err == durationIntervalError(parsed.min, parsed.max)
       IN  /\ request' = r
           /\ IF r.readErr
              THEN /\ response' = <<httpError(StatusInternalServerError, "read body")>>
                   /\ setterCalled' = NoSetter
                   /\ UNCHANGED <<minDuration, maxDuration, lastSet, clientPair>>
              ELSE IF parsed.err # ErrNil
              THEN /\ response' = <<httpError(StatusBadRequest, "parse duration interval")>>
                   /\ setterCalled' = NoSetter
                   /\ UNCHANGED <<minDuration, maxDuration, lastSet, clientPair>>
              ELSE /\ ApiSetDurationInterval(parsed.min, parsed.max)
                   /\ setterCalled' = [name |-> "SetDurationInterval", err |-> err]
                   /\ IF err # ErrNil
                      THEN /\ response' = <<httpError(StatusBadRequest, "set duration interval")>>
                           /\ UNCHANGED clientPair
                      ELSE /\ response' = <<WriteOK>>
                           /\ clientPair' = r.pair
           /\ UNCHANGED <<outsideApi, errorsPercentage>>

\* func (h *Handler) handleGetErrorsPercentage
handleGetErrorsPercentage ==
    /\ request' = GetRequest("handleGetErrorsPercentage")
    /\ response' = <<[code |-> StatusOK,
                      body |-> FormatInt(errorsPercentage) \o <<"\n">>]>>
    /\ setterCalled' = NoSetter
    /\ UNCHANGED <<outsideApi, minDuration, maxDuration, errorsPercentage,
                   lastSet, clientPair>>

\* func (h *Handler) handleSetErrorsPercentage
handleSetErrorsPercentage ==
    \E r \in SetErrorsPercentageRequests :
       LET parsed == parseInt(r.body)
           err == errorsPercentageError(parsed.value)
       IN  /\ request' = r
           /\ IF r.readErr
              THEN /\ response' = <<httpError(StatusInternalServerError, "read body")>>
                   /\ setterCalled' = NoSetter
                   /\ UNCHANGED <<errorsPercentage, minDuration, maxDuration,
                                  lastSet>>
              ELSE IF parsed.err # ErrNil
              THEN /\ response' = <<httpError(StatusBadRequest, "parse errors percentage")>>
                   /\ setterCalled' = NoSetter
                   /\ UNCHANGED <<errorsPercentage, minDuration, maxDuration,
                                  lastSet>>
              ELSE /\ ApiSetErrorsPercentage(parsed.value)
                   /\ setterCalled' = [name |-> "SetErrorsPercentage", err |-> err]
                   /\ response' = IF err # ErrNil
                                  THEN <<httpError(StatusBadRequest, "set errors percentage")>>
                                  ELSE <<WriteOK>>
           /\ UNCHANGED <<outsideApi, clientPair>>

ApiNext ==
    \/ handleGetDurationInterval
    \/ handleSetDurationInterval
    \/ handleGetErrorsPercentage
    \/ handleSetErrorsPercentage

(***************************************************************************)
(* main.contextWithSignal                                                  *)
(***************************************************************************)

\* os.Interrupt, and the signal that asks a process to terminate.
Signals == {"interrupt", "terminate"}

\* contextWithSignal not called.
SigAtRest ==
    /\ cwsPc = "idle"
    /\ sigPc = "idle"
    /\ sigCh = 0
    /\ sigDelivered = 0
    /\ parentDone = FALSE
    /\ lifeDone = FALSE
    /\ cancelCalled = FALSE
    /\ registered = {}
    /\ killed = FALSE

\* contextWithSignal(parent, signals...) called, ch made; the parent may be
\* cancelled already.
InitSig ==
    /\ cwsPc = "notify"
    /\ sigPc = "idle"
    /\ sigCh = 0
    /\ sigDelivered = 0
    /\ parentDone \in BOOLEAN
    /\ lifeDone = FALSE
    /\ cancelCalled = FALSE
    /\ registered \in (SUBSET Signals) \ {{}}
    /\ killed = FALSE

\* signal.Notify(ch, signals...)
CwsNotify ==
    /\ ~killed
    /\ cwsPc = "notify"
    /\ cwsPc' = "withCancel"
    /\ UNCHANGED <<outsideSig, sigPc, sigCh, sigDelivered, parentDone, lifeDone,
                   cancelCalled, registered, killed>>

\* ctx, cancel := context.WithCancel(parent): the child of a cancelled parent
\* is cancelled from the start.
CwsWithCancel ==
    /\ ~killed
    /\ cwsPc = "withCancel"
    /\ cwsPc' = "go"
    /\ lifeDone' = parentDone
    /\ UNCHANGED <<outsideSig, sigPc, sigCh, sigDelivered, parentDone,
                   cancelCalled, registered, killed>>

\* go func() { ... }() and return ctx, cancel
CwsGo ==
    /\ ~killed
    /\ cwsPc = "go"
    /\ cwsPc' = "returned"
    /\ sigPc' = "select"
    /\ UNCHANGED <<outsideSig, sigCh, sigDelivered, parentDone, lifeDone,
                   cancelCalled, registered, killed>>

\* A signal reaches the process.  One that signal.Notify was told about is
\* sent to ch without blocking, and dropped when the buffer is full; any
\* other one, and any one before signal.Notify, ends the process.
Signal ==
    /\ ~killed
    /\ cwsPc # "idle"
    /\ \E sig \in Signals :
          IF cwsPc = "notify" \/ sig \notin registered
          THEN /\ killed' = TRUE
               /\ UNCHANGED <<sigDelivered, sigCh>>
          ELSE /\ sigDelivered < MaxSignals
               /\ sigDelivered' = sigDelivered + 1
               /\ sigCh' = IF sigCh < SignalChCap THEN sigCh + 1 ELSE sigCh
               /\ UNCHANGED killed
    /\ UNCHANGED <<outsideSig, cwsPc, sigPc, parentDone, lifeDone, cancelCalled,
                   registered>>

\* The parent context is cancelled; a context derived by WithCancel is
\* cancelled with it.
ParentCancel ==
    /\ ~killed
    /\ cwsPc # "idle"
    /\ ~parentDone
    /\ parentDone' = TRUE
    /\ lifeDone' = IF cwsPc \in {"go", "returned"} THEN TRUE ELSE lifeDone
    /\ UNCHANGED <<outsideSig, cwsPc, sigPc, sigCh, sigDelivered, cancelCalled,
                   registered, killed>>

\* The caller calls the cancel function contextWithSignal returned.
CallCancel ==
    /\ ~killed
    /\ cwsPc = "returned"
    /\ ~cancelCalled
    /\ cancelCalled' = TRUE
    /\ lifeDone' = TRUE
    /\ UNCHANGED <<outsideSig, cwsPc, sigPc, sigCh, sigDelivered, parentDone,
                   registered, killed>>

\* case <-parent.Done(), then the deferred cancel()
WatcherParentDone ==
    /\ ~killed
    /\ sigPc = "select"
    /\ parentDone
    /\ sigPc' = "returned"
    /\ lifeDone' = TRUE
    /\ UNCHANGED <<outsideSig, cwsPc, sigCh, sigDelivered, parentDone,
                   cancelCalled, registered, killed>>

\* A goroutine that takes the signal and returns without cancelling.
WatcherSignalNoCancel ==
    /\ ~killed
    /\ sigPc = "select"
    /\ sigCh > 0
    /\ sigCh' = sigCh - 1
    /\ sigPc' = "returned"
    /\ UNCHANGED <<outsideSig, cwsPc, sigDelivered, parentDone, lifeDone,
                   cancelCalled, registered, killed>>

\* case <-ch, then the deferred cancel()
WatcherSignal ==
    /\ ~killed
    /\ sigPc = "select"
    /\ sigCh > 0
    /\ sigCh' = sigCh - 1
    /\ sigPc' = "returned"
    /\ lifeDone' = TRUE
    /\ UNCHANGED <<outsideSig, cwsPc, sigDelivered, parentDone, cancelCalled,
                   registered, killed>>

SigNext ==
    \/ CwsNotify
    \/ CwsWithCancel
    \/ CwsGo
    \/ Signal
    \/ ParentCancel
    \/ CallCancel
    \/ WatcherParentDone
    \/ WatcherSignal

(***************************************************************************)
(* main.metricsGenerator.run, with api.Server.Run                          *)
(***************************************************************************)

\* metricsGenerator.run not called.
OrchAtRest ==
    /\ opc = "idle"
    /\ genRun = "notStarted"
    /\ genRunErr = ErrNil
    /\ srvRun = "notStarted"
    /\ srvRunErr = ErrNil
    /\ apiWatchPc = "notStarted"
    /\ apiShutdownErr = ErrNil
    /\ groupErr = ErrNil
    /\ runResult = {}

\* g.run() called by run (main.go:49).
InitOrch ==
    /\ opc = "build"
    /\ genRun = "notStarted"
    /\ genRunErr = ErrNil
    /\ srvRun = "notStarted"
    /\ srvRunErr = ErrNil
    /\ apiWatchPc = "notStarted"
    /\ apiShutdownErr = ErrNil
    /\ groupErr = ErrNil
    /\ runResult = {}

\* errgroup.Group: errOnce keeps the first error that is not nil.
GroupErrAfter(err) == IF groupErr = ErrNil THEN err ELSE groupErr

\* main: log.Fatalf ends the process with status 1, a nil error with 0.
ExitCode == IF runResult = {} THEN 0 ELSE 1

\* config, err := g.buildLimitsConfig() with the values of the flags, then
\* the call of contextWithSignal(context.Background(), os.Interrupt).
OrchBuild ==
    /\ opc = "build"
    /\ \E p \in DurationPairs, pct \in PercentageArgs :
          IF durationIntervalError(p[1], p[2]) = ErrNil
             /\ errorsPercentageError(pct) = ErrNil
          THEN /\ minDuration' = p[1]
               /\ maxDuration' = p[2]
               /\ lastSet' = p
               /\ errorsPercentage' = pct
               /\ opc' = "contextWithSignal"
               /\ cwsPc' = "notify"
               /\ registered' = {"interrupt"}
               /\ UNCHANGED runResult
          ELSE /\ runResult' = {ErrBuild}
               /\ opc' = "returned"
               /\ UNCHANGED <<minDuration, maxDuration, lastSet,
                              errorsPercentage, cwsPc, registered>>
    /\ UNCHANGED <<outsideOrch, sigPc, sigCh, sigDelivered, parentDone, lifeDone,
                   cancelCalled, killed, genRun, genRunErr, srvRun, srvRunErr,
                   apiWatchPc, apiShutdownErr, groupErr>>

\* group.Go(func() error { return generator.Run(ctx) })
OrchGoGenerator ==
    /\ ~killed
    /\ opc = "contextWithSignal"
    /\ cwsPc = "returned"
    /\ opc' = "goServer"
    /\ genRun' = "running"
    /\ UNCHANGED <<outsideOrch, limitsVars, sigVars, genRunErr, srvRun, srvRunErr,
                   apiWatchPc, apiShutdownErr, groupErr, runResult>>

\* group.Go(func() error { return server.Run(ctx) }); Run starts the goroutine
\* that waits for ctx.Done() and calls server.ListenAndServe().
OrchGoServer ==
    /\ ~killed
    /\ opc = "goServer"
    /\ opc' = "wait"
    /\ srvRun' = "running"
    /\ apiWatchPc' = "waiting"
    /\ UNCHANGED <<outsideOrch, limitsVars, sigVars, genRun, genRunErr, srvRunErr,
                   apiShutdownErr, groupErr, runResult>>

\* generator.Run(ctx) returns ctx.Err() once ctx is cancelled.
GenRunReturn ==
    /\ ~killed
    /\ genRun = "running"
    /\ lifeDone
    /\ genRun' = "returned"
    /\ genRunErr' = ErrCanceled
    /\ groupErr' = GroupErrAfter(ErrCanceled)
    /\ UNCHANGED <<outsideOrch, limitsVars, sigVars, opc, srvRun, srvRunErr,
                   apiWatchPc, apiShutdownErr, runResult>>

\* api.Server.Run: <-ctx.Done(), then server.Shutdown is called with its five
\* seconds.
ApiWatchShutdown ==
    /\ ~killed
    /\ apiWatchPc = "waiting"
    /\ lifeDone
    /\ apiWatchPc' = "inShutdown"
    /\ UNCHANGED <<outsideOrch, limitsVars, sigVars, opc, genRun, genRunErr,
                   srvRun, srvRunErr, apiShutdownErr, groupErr, runResult>>

\* api.Server.Run: server.Shutdown returns; an error is logged, and the
\* goroutine ends.
ApiShutdownReturn ==
    /\ ~killed
    /\ apiWatchPc = "inShutdown"
    /\ apiWatchPc' = "done"
    /\ \E err \in {ErrNil, ErrDeadlineExceeded} : apiShutdownErr' = err
    /\ UNCHANGED <<outsideOrch, limitsVars, sigVars, opc, genRun, genRunErr,
                   srvRun, srvRunErr, groupErr, runResult>>

\* api.Server.Run: server.ListenAndServe() fails on its own (the address is
\* in use): return fmt.Errorf("listen and serve: %v", err)
ApiListenFail ==
    /\ ~killed
    /\ srvRun = "running"
    /\ apiWatchPc = "waiting"
    /\ srvRun' = "returned"
    /\ srvRunErr' = ErrListen
    /\ groupErr' = GroupErrAfter(ErrListen)
    /\ UNCHANGED <<outsideOrch, limitsVars, sigVars, opc, genRun, genRunErr,
                   apiWatchPc, apiShutdownErr, runResult>>

\* api.Server.Run: after Shutdown server.ListenAndServe() returns
\* http.ErrServerClosed: return ctx.Err()
ApiServeClosed ==
    /\ ~killed
    /\ srvRun = "running"
    /\ apiWatchPc \in {"inShutdown", "done"}
    /\ srvRun' = "returned"
    /\ srvRunErr' = ErrCanceled
    /\ groupErr' = GroupErrAfter(ErrCanceled)
    /\ UNCHANGED <<outsideOrch, limitsVars, sigVars, opc, genRun, genRunErr,
                   apiWatchPc, apiShutdownErr, runResult>>

\* A run that returns what server.Run returned (go simulator.Run(ctx);
\* return server.Run(ctx)).
OrchWaitServerOnly ==
    /\ ~killed
    /\ opc = "wait"
    /\ srvRun = "returned"
    /\ opc' = "returned"
    /\ runResult' = IF srvRunErr = ErrNil THEN {} ELSE {srvRunErr}
    /\ lifeDone' = TRUE
    /\ cancelCalled' = TRUE
    /\ UNCHANGED <<outsideOrch, limitsVars, cwsPc, sigPc, sigCh, sigDelivered,
                   parentDone, registered, killed, genRun, genRunErr, srvRun,
                   srvRunErr, apiWatchPc, apiShutdownErr, groupErr>>

\* return group.Wait(), and the deferred cancel()
OrchWait ==
    /\ ~killed
    /\ opc = "wait"
    /\ genRun = "returned"
    /\ srvRun = "returned"
    /\ opc' = "returned"
    /\ runResult' = IF groupErr = ErrNil THEN {} ELSE {groupErr}
    /\ lifeDone' = TRUE
    /\ cancelCalled' = TRUE
    /\ UNCHANGED <<outsideOrch, limitsVars, cwsPc, sigPc, sigCh, sigDelivered,
                   parentDone, registered, killed, genRun, genRunErr, srvRun,
                   srvRunErr, apiWatchPc, apiShutdownErr, groupErr>>

OrchNext ==
    \/ OrchBuild
    \/ CwsNotify
    \/ CwsWithCancel
    \/ CwsGo
    \/ Signal
    \/ WatcherSignal
    \/ OrchGoGenerator
    \/ OrchGoServer
    \/ GenRunReturn
    \/ ApiWatchShutdown
    \/ ApiShutdownReturn
    \/ ApiListenFail
    \/ ApiServeClosed
    \/ OrchWait

(***************************************************************************)
(* The revision whose Config holds a maximum duration only                 *)
(***************************************************************************)

\* The values a client sends to PUT /-/config/max-duration.
MaxDurationArgs == -1 .. MaxDuration

\* func (c *Config) SetMaxDuration(maxDuration int) error: the check
maxDurationError(value) ==
    IF value < 0 THEN "value is less than zero" ELSE ErrNil

\* The requests to PUT /-/config/max-duration.
SetMaxDurationRequests ==
    {[handler |-> "setConfigHandler", readErr |-> FALSE,
      body |-> FormatInt(n), valid |-> TRUE, pair |-> <<n, 0>>] :
        n \in MaxDurationArgs}
    \cup
    {[handler |-> "setConfigHandler", readErr |-> FALSE,
      body |-> Boom, valid |-> FALSE, pair |-> NoPair],
     [handler |-> "setConfigHandler", readErr |-> TRUE,
      body |-> <<>>, valid |-> FALSE, pair |-> NoPair]}

\* http.Error(w, http.StatusText(code), code)
httpStatusError(code) ==
    httpError(code, IF code = StatusBadRequest THEN "Bad Request"
                    ELSE "Internal Server Error")

\* setConfigHandler(config.SetMaxDuration) serving a PUT while the loop runs:
\* io.ReadAll, strconv.Atoi, SetMaxDuration with its atomic store.
setConfigHandler ==
    /\ gpc \notin {"idle", "panicked"}
    /\ \E r \in SetMaxDurationRequests :
          LET parsed == Atoi(r.body)
              err == maxDurationError(parsed.value)
          IN  /\ request' = r
              /\ IF r.readErr
                 THEN /\ response' = <<httpStatusError(StatusInternalServerError)>>
                      /\ setterCalled' = NoSetter
                      /\ UNCHANGED maxDuration
                 ELSE IF parsed.err # ErrNil
                 THEN /\ response' = <<httpStatusError(StatusBadRequest)>>
                      /\ setterCalled' = NoSetter
                      /\ UNCHANGED maxDuration
                 ELSE /\ maxDuration' = IF err = ErrNil THEN parsed.value
                                        ELSE maxDuration
                      /\ setterCalled' = [name |-> "SetMaxDuration", err |-> err]
                      /\ response' = IF err # ErrNil
                                     THEN <<httpStatusError(StatusBadRequest)>>
                                     ELSE <<WriteOK>>
    /\ UNCHANGED <<outsideApi, minDuration, errorsPercentage, lastSet,
                   clientPair>>

\* The Config as run leaves it: SetMaxDuration and SetErrorsPercentage have
\* accepted the values of the flags.
InitMaxConfig ==
    /\ minDuration = 0
    /\ maxDuration \in MaxDurationArgs
    /\ errorsPercentage \in PercentageArgs
    /\ maxDurationError(maxDuration) = ErrNil
    /\ errorsPercentageError(errorsPercentage) = ErrNil
    /\ mu = [writer |-> NoWriter, readers |-> {}]
    /\ lpc = [t \in Threads |-> "idle"]
    /\ argMin = [t \in Threads |-> 0]
    /\ argMax = [t \in Threads |-> 0]
    /\ argPct = [t \in Threads |-> 0]
    /\ retErr = [t \in Threads |-> ErrNil]
    /\ retMin = [t \in Threads |-> 0]
    /\ retMax = [t \in Threads |-> 0]
    /\ retPct = [t \in Threads |-> 0]
    /\ lastSet = <<0, 0>>

MaxGenNext ==
    \/ GenCancel
    \/ GeneratorObserve
    \/ GeneratorErrors
    \/ TimeAfter
    \/ GeneratorContinue
    \/ GeneratorDone
    \/ setConfigHandler
    \/ GenSetErrorsPercentage

Init == InitRun /\ LimitsAtRest /\ GenAtRest /\ InitApi /\ SigAtRest /\ OrchAtRest

Spec == Init /\ [][RunNext]_vars

\* The HTTP runtime before run is called, while only the store is looked at.
RunAtRest ==
    /\ InitRun
    /\ shutdownTimeout = 0
    /\ ~serveFailsOnOwn
    /\ serveStopErr = ErrNil
    /\ shutdownResult = ErrNil
    /\ drainTime = 0

LimitsInit ==
    InitLimits /\ RunAtRest /\ GenAtRest /\ InitApi /\ SigAtRest /\ OrchAtRest

LimitsSpec == LimitsInit /\ [][LimitsNext]_vars

\* The Go scheduler runs every runnable goroutine, a stopped server's serve
\* operation returns, and time passes.  Nothing obliges the caller to cancel
\* or the server to fail.
RunFairness ==
    /\ WF_vars(ServeCall)
    /\ WF_vars(ServeStop)
    /\ WF_vars(ServeSend)
    /\ WF_vars(ServeClose)
    /\ WF_vars(WatchServeDone)
    /\ WF_vars(WatchCtxDone)
    /\ WF_vars(Tick)
    /\ WF_vars(ShutdownReturn)
    /\ WF_vars(WatchSend)
    /\ WF_vars(WatchClose)
    /\ WF_vars(CloserWaitShutdown)
    /\ WF_vars(CloserWaitServe)
    /\ WF_vars(CloserClose)
    /\ WF_vars(RunReceive)
    /\ WF_vars(RunReturn)

FairSpec == Spec /\ RunFairness

\* The store as buildLimitsConfig leaves it, and Run just called.
GenInit ==
    InitLimits /\ RunAtRest /\ InitGen /\ InitApi /\ SigAtRest /\ OrchAtRest

\* The store as buildLimitsConfig leaves it, served by the control API.
ApiInit ==
    InitLimits /\ RunAtRest /\ GenAtRest /\ InitApi /\ SigAtRest /\ OrchAtRest

ApiSpec == ApiInit /\ [][ApiNext]_vars

SigInit ==
    RunAtRest /\ LimitsAtRest /\ GenAtRest /\ InitApi /\ InitSig /\ OrchAtRest

SigSpec == SigInit /\ [][SigNext]_vars

\* The Go scheduler runs contextWithSignal and the goroutine it starts.
\* Nothing obliges a signal to arrive, the parent to be cancelled or the
\* caller to call cancel.
SigFairness ==
    /\ WF_vars(CwsNotify)
    /\ WF_vars(CwsWithCancel)
    /\ WF_vars(CwsGo)
    /\ WF_vars(WatcherParentDone)
    /\ WF_vars(WatcherSignal)

SigFairSpec == SigSpec /\ SigFairness

\* The process as main starts it: nothing built, no context yet.
OrchInit ==
    RunAtRest /\ LimitsAtRest /\ GenAtRest /\ InitApi /\ SigAtRest /\ InitOrch

OrchSpec == OrchInit /\ [][OrchNext]_vars

\* The Go scheduler runs run and every goroutine, and a server that was shut
\* down returns from ListenAndServe.  Nothing obliges a signal to arrive or
\* the server to fail.
OrchFairness ==
    /\ WF_vars(OrchBuild)
    /\ WF_vars(CwsNotify)
    /\ WF_vars(CwsWithCancel)
    /\ WF_vars(CwsGo)
    /\ WF_vars(WatcherSignal)
    /\ WF_vars(OrchGoGenerator)
    /\ WF_vars(OrchGoServer)
    /\ WF_vars(GenRunReturn)
    /\ WF_vars(ApiWatchShutdown)
    /\ WF_vars(ApiShutdownReturn)
    /\ WF_vars(ApiServeClosed)
    /\ WF_vars(OrchWait)

OrchFairSpec == OrchSpec /\ OrchFairness

GenSpec == GenInit /\ [][GenNext]_vars

\* The Go scheduler runs the goroutine of Run whenever it can take a step,
\* and a timer fires when its second is over.  Nothing obliges anybody to
\* cancel the context or to call a setter.
GenFairness ==
    /\ WF_vars(GeneratorObserve)
    /\ WF_vars(GeneratorErrors)
    /\ WF_vars(TimeAfter)
    /\ WF_vars(GeneratorContinue)
    /\ WF_vars(GeneratorDone)

GenFairSpec == GenSpec /\ GenFairness

\* simulateRequests/Generator.Run called with the Config of the revision that
\* holds a maximum duration only.
MaxGenInit ==
    InitMaxConfig /\ RunAtRest /\ InitGen /\ InitApi /\ SigAtRest /\ OrchAtRest

MaxGenSpec == MaxGenInit /\ [][MaxGenNext]_vars

\* The steps of goroutine t inside a method of the Config.
LimitsStep(t) ==
    \/ DurationIntervalRLock(t)
    \/ DurationIntervalReadMin(t)
    \/ DurationIntervalReadMax(t)
    \/ DurationIntervalRUnlock(t)
    \/ SetDurationIntervalLock(t)
    \/ SetDurationIntervalWriteMin(t)
    \/ SetDurationIntervalWriteMax(t)
    \/ SetDurationIntervalUnlock(t)
    \/ ErrorsPercentageRead(t)
    \/ SetErrorsPercentageLock(t)
    \/ SetErrorsPercentageWrite(t)
    \/ SetErrorsPercentageUnlock(t)

\* The Go scheduler runs every runnable goroutine, and a goroutine waiting in
\* Lock gets the lock once it has been free often enough (sync.Mutex hands
\* the lock to a starving waiter).  Nothing obliges a caller to call again.
LimitsFairness ==
    \A t \in Threads :
        /\ WF_vars(LimitsStep(t))
        /\ SF_vars(SetDurationIntervalLock(t))
        /\ SF_vars(SetErrorsPercentageLock(t))

\* Whether a call returns depends on the lock and on whether the arguments
\* pass the checks, never on which valid values are stored: the progress of
\* the callers is examined with one valid and one invalid argument per setter.
LimitsFairInit ==
    /\ InitLimits
    /\ RunAtRest
    /\ GenAtRest
    /\ InitApi
    /\ SigAtRest
    /\ OrchAtRest
    /\ minDuration = 1
    /\ maxDuration = 1
    /\ errorsPercentage = MinPercentage

LimitsFairArgs ==
    \A t \in Threads :
        /\ <<argMin[t], argMax[t]>> \in {<<0, 0>>, <<1, 1>>}
        /\ argPct[t] \in {MinPercentage, MaxPercentage + 1}

LimitsFairNext == LimitsNext /\ LimitsFairArgs'

LimitsFairSpec ==
    LimitsFairInit /\ [][LimitsFairNext]_vars /\ LimitsFairness

(***************************************************************************)
(* Claims about httprun.Server.run                                         *)
(***************************************************************************)

\* Number of occurrences of e in the sequence s.
Count(s, e) == Cardinality({i \in 1..Len(s) : s[i] = e})

\* e occurs in the sequence s.
Contains(s, e) == \E i \in 1..Len(s) : s[i] = e

\* C1: when run has returned and the lifecycle context was never cancelled
\* (so the serve operation failed on its own), the returned list is exactly
\* that one error and HTTPServer.Shutdown was never invoked.
C1_SetupErrorAlone ==
    (pcRun = "returned" /\ ~ctxDone) =>
        /\ serveReturned
        /\ result = <<ErrServe>>
        /\ shutdownCalls = 0

C1_Witness ==
    /\ pcRun = "returned"
    /\ ~ctxDone
    /\ serveFailsOnOwn
    /\ serveErr = ErrServe
    /\ result = <<ErrServe>>

\* C2: HTTPServer.Shutdown is never invoked once the serve operation has
\* returned, in any interleaving of serve completion and cancellation.
C2_NoShutdownAfterServeReturned ==
    [][shutdownCalls' > shutdownCalls => ~serveReturned]_vars

\* The serve operation blocks until Shutdown is invoked and then returns nil,
\* and Shutdown returns nil: its drain ends before its context expires.
CleanServer ==
    /\ ~serveFailsOnOwn
    /\ serveStopErr = ErrNil
    /\ shutdownResult = ErrNil
    /\ drainTime # Never
    /\ drainTime <= shutdownTimeout

\* C3: with a serve operation that blocks until Shutdown and returns nil and a
\* Shutdown that returns nil, cancelling the context makes run eventually
\* return, and it returns the empty list.
C3_CleanStopReturnsEmpty ==
    (CleanServer /\ ctxDone) ~> (pcRun = "returned" /\ result = <<>>)

C3_Witness ==
    /\ CleanServer
    /\ ctxDone
    /\ shutdownReturned = 1
    /\ pcRun = "returned"
    /\ result = <<>>

\* How many times run has to report e: once if the serve operation returned
\* it, once more if Shutdown was invoked and returned it.
Reported(e) ==
    (IF serveReturned /\ serveErr = e THEN 1 ELSE 0)
    + (IF shutdownReturned > 0 /\ shutdownErr = e THEN 1 ELSE 0)

\* C4: the list run returns holds exactly the non-nil errors returned by the
\* serve operation and by Shutdown (when invoked), each once and no nil; when
\* both fail it has length 2 and holds both.
C4_ExactlyTheNonNilErrors ==
    pcRun = "returned" =>
        /\ \A e \in {ErrServe, ErrShutdown, ErrServerClosed, ErrDeadlineExceeded} :
              Count(result, e) = Reported(e)
        /\ ~Contains(result, ErrNil)
        /\ (serveErr = ErrServe /\ shutdownReturned > 0 /\ shutdownErr = ErrShutdown)
              => (Len(result) = 2 /\ Contains(result, ErrServe)
                                  /\ Contains(result, ErrShutdown))

C4_Witness ==
    /\ pcRun = "returned"
    /\ ctxDone
    /\ serveErr = ErrServe
    /\ shutdownErr = ErrShutdown
    /\ Len(result) = 2
    /\ Contains(result, ErrServe)
    /\ Contains(result, ErrShutdown)

\* C5: when run returns, the serve call has returned, every invoked Shutdown
\* has returned, and the three goroutines run started have ended.
C5_NothingOutlivesRun ==
    pcRun = "returned" =>
        /\ serveReturned
        /\ shutdownReturned = shutdownCalls
        /\ pcServe = "done"
        /\ pcWatch = "done"
        /\ pcCloser = "done"

C5_Witness ==
    /\ pcRun = "returned"
    /\ shutdownCalls = 1
    /\ shutdownReturned = 1
    /\ pcServe = "done"
    /\ pcWatch = "done"
    /\ pcCloser = "done"

C7_ShutdownAtMostOnce == shutdownCalls <= 1

C7_Witness == shutdownCalls = 1 /\ pcRun = "returned"

\* C8: if the context is cancelled while the serve operation has not returned
\* and serve stays blocked until Shutdown, Shutdown is eventually invoked.
C8_CancelFiresShutdown ==
    (ctxDone /\ ~serveReturned /\ ~serveFailsOnOwn) ~> (shutdownCalls > 0)

C8_Witness ==
    /\ ctxDone
    /\ ~serveReturned
    /\ ~serveFailsOnOwn
    /\ pcServe = "serving"
    /\ shutdownCalls = 1

\* The drain of the server does not finish within ShutdownTimeout.
DrainTooSlow == drainTime = Never \/ drainTime > shutdownTimeout

\* C9: the context handed to Shutdown expires once ShutdownTimeout has
\* elapsed, and when the drain does not finish within that bound run still
\* returns, with Shutdown's timeout error in the returned list.
C9_ShutdownBoundedByTimeout ==
    /\ [](pcWatch = "inShutdown" =>
            (ctxTimeout = shutdownTimeout /\ (CtxExpired <=> elapsed >= shutdownTimeout)))
    /\ (shutdownCalls > 0 /\ DrainTooSlow) ~>
            (pcRun = "returned" /\ Contains(result, ErrDeadlineExceeded))

C9_Witness ==
    /\ DrainTooSlow
    /\ shutdownTimeout > 0
    /\ elapsed = shutdownTimeout
    /\ pcRun = "returned"
    /\ Contains(result, ErrDeadlineExceeded)

(***************************************************************************)
(* Claims about limits.Config                                              *)
(***************************************************************************)

InvalidInterval(mn, mx) == mn <= 0 \/ mx <= 0 \/ mx < mn

\* Goroutine t is inside SetDurationInterval, past the checks.
InSetDurationInterval(t) ==
    lpc[t] \in {"sdi_lock", "sdi_writeMin", "sdi_writeMax", "sdi_unlock"}

\* Goroutine t is inside SetErrorsPercentage, past the check.
InSetErrorsPercentage(t) ==
    lpc[t] \in {"sep_lock", "sep_write", "sep_unlock"}

\* C11: a SetDurationInterval call with min <= 0 or max <= 0 or max < min
\* returns an error without ever reaching the lock or the writes, and the
\* stored pair after the call is the pair before it, however often the call
\* is repeated.
C11_InvalidIntervalRejected ==
    /\ [](\A t \in Threads :
            /\ InSetDurationInterval(t) => ~InvalidInterval(argMin[t], argMax[t])
            /\ (lpc[t] = "sdi_ret" /\ InvalidInterval(argMin[t], argMax[t]))
                  => retErr[t] # ErrNil)
    /\ [][\A t \in Threads :
            (lpc[t] = "idle" /\ lpc'[t] \in {"sdi_lock", "sdi_ret"}
               /\ InvalidInterval(argMin'[t], argMax'[t]))
              => /\ lpc'[t] = "sdi_ret"
                 /\ retErr'[t] # ErrNil
                 /\ <<minDuration, maxDuration, lastSet>>'
                      = <<minDuration, maxDuration, lastSet>>]_vars

C11_Witness ==
    \E t \in Threads :
        /\ lpc[t] = "sdi_ret"
        /\ argMin[t] = MaxDuration
        /\ argMax[t] = 1
        /\ retErr[t] = ErrMaxBelowMin
        /\ <<minDuration, maxDuration>> # <<argMin[t], argMax[t]>>
        /\ \E u \in Threads :
              /\ lpc[u] = "sdi_ret"
              /\ argMin[u] = 0
              /\ retErr[u] = ErrMinNotPositive

\* C12: SetErrorsPercentage with pct in [0,100] returns nil and stores pct;
\* with pct outside [0,100] it returns an error without reaching the lock or
\* the write, and the stored percentage is what it was.
C12_PercentageAcceptedOrRejected ==
    /\ [](\A t \in Threads :
            /\ InSetErrorsPercentage(t) =>
                  (argPct[t] >= MinPercentage /\ argPct[t] <= MaxPercentage)
            /\ lpc[t] = "sep_unlock" => errorsPercentage = argPct[t]
            /\ lpc[t] = "sep_ret" =>
                  (retErr[t] = ErrNil <=>
                     (argPct[t] >= MinPercentage /\ argPct[t] <= MaxPercentage)))
    /\ [][\A t \in Threads :
            (lpc[t] = "idle" /\ lpc'[t] \in {"sep_lock", "sep_ret"})
              => /\ errorsPercentage' = errorsPercentage
                 /\ (argPct'[t] < MinPercentage \/ argPct'[t] > MaxPercentage)
                      => (lpc'[t] = "sep_ret" /\ retErr'[t] = ErrNotPercentage)
                 /\ (argPct'[t] >= MinPercentage /\ argPct'[t] <= MaxPercentage)
                      => lpc'[t] = "sep_lock"]_vars

C12_Witness ==
    \E t \in Threads, u \in Threads :
        /\ lpc[t] = "sep_ret"
        /\ argPct[t] = MaxPercentage
        /\ retErr[t] = ErrNil
        /\ errorsPercentage = MaxPercentage
        /\ lpc[u] = "sep_ret"
        /\ argPct[u] = MaxPercentage + 1
        /\ retErr[u] = ErrNotPercentage

\* Goroutine t is inside DurationInterval, holding the read lock.
InDurationInterval(t) == lpc[t] \in {"di_readMin", "di_readMax", "di_runlock"}

\* C13: with concurrent readers and writers, DurationInterval reads both
\* fields while no SetDurationInterval is between its two writes; what it
\* returns is the whole pair of the latest accepted SetDurationInterval (or of
\* the initialisation), never one field of one update and one of another, so
\* never min > max.
C13_NoTornInterval ==
    \A t \in Threads :
        /\ InDurationInterval(t) =>
              /\ mu.writer = NoWriter
              /\ t \in mu.readers
              /\ <<minDuration, maxDuration>> = lastSet
        /\ lpc[t] = "di_readMax" => retMin[t] = lastSet[1]
        /\ lpc[t] = "di_runlock" => <<retMin[t], retMax[t]>> = lastSet
        /\ lpc[t] = "di_ret" =>
              /\ retMin[t] <= retMax[t]
              /\ durationIntervalError(retMin[t], retMax[t]) = ErrNil

C13_Witness ==
    \E t \in Threads, u \in Threads :
        /\ lpc[t] = "di_runlock"
        /\ retMin[t] = 1
        /\ retMax[t] = MaxDuration
        /\ lpc[u] = "sdi_lock"
        /\ argMin[u] = MaxDuration
        /\ argMax[u] = MaxDuration

\* C14: no read accessor reads a stored field while a setter holds the write
\* lock: each read step of DurationInterval and of ErrorsPercentage is taken
\* with no writer holding c.mu.
C14_ReadsExcludeWrites ==
    [][\A t \in Threads :
         (lpc[t] \in {"di_readMin", "di_readMax", "ep_read"} /\ lpc'[t] # lpc[t])
            => mu.writer = NoWriter]_vars

\* The stored values satisfy the invariants of the configuration.
ValidStoredInterval == minDuration > 0 /\ maxDuration > 0 /\ minDuration <= maxDuration
ValidStoredPercentage ==
    errorsPercentage >= MinPercentage /\ errorsPercentage <= MaxPercentage

\* C15: from the moment the store is shared, after any sequence of accepted
\* and rejected setter calls, what the simulation loop and the API can observe
\* satisfies minDuration > 0, maxDuration > 0, minDuration <= maxDuration and
\* 0 <= errorsPercentage <= 100: the stored pair whenever no setter holds the
\* write lock, the stored percentage always, and every value an accessor
\* returns.
C15_StoreInvariants ==
    /\ mu.writer = NoWriter => ValidStoredInterval
    /\ ValidStoredPercentage
    /\ \A t \in Threads :
          /\ lpc[t] = "di_ret" =>
                (retMin[t] > 0 /\ retMax[t] > 0 /\ retMin[t] <= retMax[t])
          /\ lpc[t] = "ep_ret" =>
                (retPct[t] >= MinPercentage /\ retPct[t] <= MaxPercentage)

C15_Witness ==
    \E t \in Threads, u \in Threads :
        /\ lpc[t] = "sdi_ret"
        /\ retErr[t] = ErrNil
        /\ lpc[u] = "sep_ret"
        /\ retErr[u] = ErrNotPercentage
        /\ mu.writer = NoWriter
        /\ <<minDuration, maxDuration>> = <<argMin[t], argMax[t]>>

\* Goroutine t has called a method of the Config and has not returned.
InCall(t) == lpc[t] \notin {"idle", "di_ret", "sdi_ret", "ep_ret", "sep_ret"}

\* C16: under fair scheduling every accessor and setter call of every
\* goroutine eventually returns, whatever the other readers and writers do.
C16_EveryCallReturns ==
    \A t \in Threads :
        InCall(t) ~> (lpc[t] \in {"di_ret", "sdi_ret", "ep_ret", "sep_ret"})

C16_Witness ==
    \E t \in Threads, u \in Threads :
        /\ lpc[t] = "sdi_ret"
        /\ retErr[t] = ErrNil
        /\ lpc[u] = "sep_unlock"
        /\ mu.writer = u

(***************************************************************************)
(* Claims about metrics.Generator.Run                                      *)
(***************************************************************************)

\* Run hands a duration to g.Duration.Observe in this step.
ObserveStep == gpc = "observe" /\ gpc' = "errors"

\* Run decides about g.Errors.Inc() in this step.
ErrorsStep == gpc = "errors" /\ gpc' = "select"

\* C17: every duration handed to the duration sink lies between the stored
\* minimum and the stored maximum, both included.
C17_DurationWithinInterval ==
    [][ObserveStep => (minDuration <= observed' /\ observed' <= maxDuration)]_vars

\* C18: while the stored errors percentage is 0 no iteration increments the
\* error counter, and while it is 100 every iteration increments it, whatever
\* rand.Intn(100) draws.
C18_NeverAtZeroAlwaysAtHundred ==
    [][ErrorsStep =>
          /\ (errorsPercentage = MinPercentage => errorsInc' = errorsInc)
          /\ (errorsPercentage = MaxPercentage => errorsInc' = errorsInc + 1)]_vars

C18_Witness ==
    /\ errorsPercentage = MaxPercentage
    /\ errorsInc = iterations
    /\ iterations = MaxIterations
    /\ gpc = "select"

\* C19: Run returns only once its context is cancelled, and then with the
\* context's error; after the cancellation it takes the timer's case at most
\* once, and it eventually returns.
C19_ReturnsOnCancellationOnly ==
    /\ [](gpc = "returned" => (genCtxDone /\ genResult = ErrCanceled))
    /\ [](gpc # "returned" => genResult = ErrNil)
    /\ [](ignored <= 1)
    /\ (genCtxDone ~> (gpc = "returned"))

C19_Witness ==
    /\ gpc = "returned"
    /\ genResult = ErrCanceled
    /\ ignored = 1
    /\ iterations > 1

\* C20: the duration observed in an iteration is drawn below the maximum of
\* the last accepted SetDurationInterval, and the error counter moves
\* according to the percentage stored at that iteration, not according to
\* what was stored when Run was called.
C20_FreshConfigEachIteration ==
    [][/\ ObserveStep => observed' \in Intn(lastSet[2])
       /\ ErrorsStep =>
            /\ (errorsInc' # errorsInc => errorsPercentage > MinPercentage)
            /\ (errorsInc' = errorsInc => errorsPercentage < MaxPercentage)]_vars

C20_Witness ==
    /\ gpc = "errors"
    /\ iterations > 1
    /\ maxDuration # startMax
    /\ observed >= startMax

(***************************************************************************)
(* Claims about api.Handler                                                *)
(***************************************************************************)

\* The request is one of the two PUTs.
WriteRequest(r) ==
    r.handler \in {"handleSetDurationInterval", "handleSetErrorsPercentage"}

\* The client's value is one the setter of the request's handler rejects.
SetterRejects(r) ==
    IF r.handler = "handleSetDurationInterval"
    THEN InvalidInterval(r.pair[1], r.pair[2])
    ELSE r.pair[1] < MinPercentage \/ r.pair[1] > MaxPercentage

\* C21: a PUT whose body cannot be read or is malformed calls no setter of the
\* Config, and a PUT answered with anything but 200 leaves the three stored
\* fields as they were.
C21_RejectedWriteChangesNothing ==
    [][WriteRequest(request') =>
          /\ (request'.readErr \/ ~request'.valid) => setterCalled'.name = "none"
          /\ response'[1].code # StatusOK =>
                UNCHANGED <<minDuration, maxDuration, errorsPercentage>>]_vars

C21_Witness ==
    /\ request.handler = "handleSetDurationInterval"
    /\ request.body = Boom
    /\ response[1].code = StatusBadRequest
    /\ setterCalled.name = "none"
    /\ clientPair = <<15, 45>>
    /\ <<minDuration, maxDuration>> = clientPair

\* C22: a GET of the duration interval answers 200 with the pair of the last
\* PUT that was answered 200, written as "<min>,<max>".
C22_PutThenGetSamePair ==
    (request.handler = "handleGetDurationInterval" /\ clientPair # NoPair) =>
        response = <<[code |-> StatusOK,
                      body |-> PairText(clientPair[1], clientPair[2]) \o <<"\n">>]>>

C22_Witness ==
    /\ request.handler = "handleGetDurationInterval"
    /\ clientPair = <<15, 45>>
    /\ response[1].body = <<"1", "5", ",", "4", "5", "\n">>

\* C23: every PUT gets one answer: 500 if the body cannot be read, 400 if it
\* is malformed or the setter rejects the value, and 200 with OK exactly when
\* the setter was called and returned nil.
C23_OneOutcomePerWrite ==
    WriteRequest(request) =>
        /\ Len(response) = 1
        /\ response[1].code \in {StatusOK, StatusBadRequest, StatusInternalServerError}
        /\ request.readErr => response[1].code = StatusInternalServerError
        /\ (~request.readErr /\ ~request.valid) =>
              response[1].code = StatusBadRequest
        /\ (request.valid /\ SetterRejects(request)) =>
              response[1].code = StatusBadRequest
        /\ (request.valid /\ ~SetterRejects(request)) =>
              response[1].code = StatusOK
        /\ response[1].code = StatusOK <=>
              (setterCalled.name # "none" /\ setterCalled.err = ErrNil)
        /\ response[1].code = StatusOK => response[1] = WriteOK

C23_Witness ==
    /\ request.handler = "handleSetErrorsPercentage"
    /\ request.body = <<"1", "5", "0">>
    /\ response[1].code = StatusBadRequest
    /\ setterCalled.name = "SetErrorsPercentage"
    /\ setterCalled.err # ErrNil

(***************************************************************************)
(* Claims about main.contextWithSignal                                     *)
(***************************************************************************)

\* C28: the derived context is cancelled only once a registered signal has
\* arrived, the parent is cancelled or the caller has called cancel; and once
\* a registered signal has arrived or the parent is cancelled, the derived
\* context eventually is cancelled.
C28_CancelledBySignalOrParent ==
    /\ [](lifeDone => (sigDelivered > 0 \/ parentDone \/ cancelCalled))
    /\ ((sigDelivered > 0 \/ parentDone) ~> (lifeDone \/ killed))

C28_Witness ==
    /\ lifeDone
    /\ sigPc = "returned"
    /\ sigDelivered > 0
    /\ ~parentDone
    /\ ~cancelCalled
    /\ ~killed

\* C29: once the derived context is cancelled, by whatever means, the
\* goroutine contextWithSignal started terminates (unless the whole process
\* is ended first).
C29_WatcherEndsWithContext ==
    (lifeDone /\ sigPc = "select") ~> (sigPc = "returned" \/ killed)

(***************************************************************************)
(* Claims about main.metricsGenerator.run                                  *)
(***************************************************************************)

\* C24: when run has returned after the lifecycle context was cancelled by a
\* signal, and neither ListenAndServe nor Shutdown failed, run returned nil
\* and the process exits with code 0.
C24_SignalStopReturnsNil ==
    ( /\ opc = "returned"
      /\ sigDelivered > 0
      /\ genRun = "returned"
      /\ srvRunErr # ErrListen
      /\ apiShutdownErr = ErrNil )
        => (runResult = {} /\ ExitCode = 0)

\* C25: once server.Run has returned a listen error while no signal has been
\* received, run eventually returns that error (or the process is ended).
C25_ListenErrorReturnedWithoutSignal ==
    (srvRun = "returned" /\ srvRunErr = ErrListen /\ sigDelivered = 0)
        ~> ((opc = "returned" /\ ErrListen \in runResult) \/ killed)

\* C26: when generator.Run and server.Run both returned an error that is not
\* nil, both errors are visible in what run returned.
C26_BothErrorsVisible ==
    ( /\ opc = "returned"
      /\ genRun = "returned"
      /\ srvRun = "returned"
      /\ genRunErr # ErrNil
      /\ srvRunErr # ErrNil )
        => (genRunErr \in runResult /\ srvRunErr \in runResult)

\* C27: run starts generator.Run and server.Run under the one lifecycle
\* context before it waits, generator.Run returns only once that context is
\* cancelled, and run, once it started them, returns only after both have
\* returned.
C27_ReturnsAfterBothReturned ==
    /\ opc = "wait" => (genRun # "notStarted" /\ srvRun # "notStarted")
    /\ genRun = "returned" => lifeDone
    /\ srvRunErr = ErrCanceled => lifeDone
    /\ (opc = "returned" /\ ErrBuild \notin runResult) =>
          (genRun = "returned" /\ srvRun = "returned")

C27_Witness ==
    /\ opc = "returned"
    /\ genRun = "returned"
    /\ srvRun = "returned"
    /\ srvRunErr = ErrListen
    /\ sigDelivered > 0

(***************************************************************************)
(* Claims about the duration interval a client may set                     *)
(***************************************************************************)

\* C30: a PUT of the duration interval whose body is a well-formed pair with
\* the minimum not strictly less than the maximum is answered 400 by a
\* rejecting SetDurationInterval and is not stored; in particular a pair with
\* the minimum equal to the maximum is rejected.
C30_EqualBoundsRejected ==
    ( /\ request.handler = "handleSetDurationInterval"
      /\ ~request.readErr
      /\ request.valid
      /\ request.pair[1] >= request.pair[2] )
        => /\ response[1].code = StatusBadRequest
           /\ setterCalled.name = "SetDurationInterval"
           /\ setterCalled.err # ErrNil
           /\ lastSet # request.pair

(***************************************************************************)
(* Claims about the revision whose Config holds a maximum duration only    *)
(***************************************************************************)

\* C31: every call of SetMaxDuration with a value that is not positive (zero
\* included) returns an error and leaves the stored maximum as it was.
C31_NonPositiveMaxRejected ==
    [][(setterCalled'.name = "SetMaxDuration" /\ request'.pair[1] <= 0)
          => (setterCalled'.err # ErrNil /\ UNCHANGED maxDuration)]_vars

\* C37: with every value the setters of the Config accept, a maximum of 0
\* included, no iteration of Generator.Run panics.
C37_LoopNeverPanics == gpc # "panicked"

(***************************************************************************)
(* Further claims about httprun Server.run                                 *)
(***************************************************************************)

\* C32: when run has returned and both the serve operation and Shutdown
\* returned an error, the returned list is the serve error followed by the
\* shutdown error, whichever of the two returned first.
C32_ServeErrorFirst ==
    ( /\ pcRun = "returned"
      /\ serveErr \notin {ErrNil, ErrServerClosed}
      /\ shutdownErr # ErrNil )
        => result = <<serveErr, shutdownErr>>

\* C36: nothing panics; the errors channel never holds more than its two
\* values and a goroutine about to send finds room, so no send blocks; the
\* channel is closed at most once and only when the serve goroutine and the
\* watcher goroutine have finished.
C36_ChannelSafety ==
    /\ ~panicked
    /\ Len(errors) <= ErrorsCap
    /\ pcServe = "send" => Len(errors) < ErrorsCap
    /\ pcWatch = "send" => Len(errors) < ErrorsCap
    /\ errorsClosed => (pcServe = "done" /\ pcWatch = "done")
    /\ closeCount <= 1
    /\ errorsClosed <=> closeCount = 1

C36_Witness ==
    /\ pcRun = "returned"
    /\ closeCount = 1
    /\ shutdownCalls = 1
    /\ serveReturned
    /\ Len(result) = ErrorsCap

\* C38: HTTPServer.Shutdown is invoked only once the serve operation has been
\* started, also when the context is cancelled before run is called.
C38_ShutdownAfterServeStarted ==
    shutdownCalls > 0 => pcServe # "start"

\* C39: with ShutdownTimeout left at zero the context handed to
\* HTTPServer.Shutdown is expired at the moment Shutdown is called and stays
\* so, no time passes while Shutdown waits, and a Shutdown whose drain is not
\* over at once returns the context's error.
C39_ZeroTimeoutNoGrace ==
    /\ [](shutdownTimeout = 0 =>
            /\ pcWatch = "inShutdown" => (ctxTimeout = 0 /\ CtxExpired)
            /\ (shutdownReturned > 0 /\ drainTime # 0) =>
                  shutdownErr = ErrDeadlineExceeded)
    /\ [][(shutdownTimeout = 0 /\ pcWatch = "inShutdown")
            => elapsed' = elapsed]_vars

C39_Witness ==
    /\ shutdownTimeout = 0
    /\ pcWatch = "inShutdown"
    /\ drainTime = 1
    /\ elapsed = 0
    /\ CtxExpired

(***************************************************************************)
(* Claims about api.Server.Run                                             *)
(***************************************************************************)

\* C33: when Run has returned and the server's Shutdown returned an error
\* that is not nil, that error is the error Run returned, or part of it.
C33_ShutdownErrorReturned ==
    (srvRun = "returned" /\ apiShutdownErr # ErrNil)
        => srvRunErr = apiShutdownErr

\* C34: when ListenAndServe returned on its own, Run returned exactly its
\* error and Shutdown is never invoked on the server, also when the context
\* is cancelled afterwards.
C34_NoShutdownAfterListenError ==
    (srvRun = "returned" /\ srvRunErr = ErrListen)
        => apiWatchPc \notin {"inShutdown", "done"}

(***************************************************************************)
(* Claims about what a call on the Config leaves alone                     *)
(***************************************************************************)

GetHandlers == {"handleGetDurationInterval", "handleGetErrorsPercentage"}

\* C35: a request that sets the errors percentage, accepted or rejected,
\* leaves the stored duration interval as it was; a request that sets the
\* duration interval, accepted or rejected, leaves the stored errors
\* percentage as it was; a GET, which calls the read accessors, changes none
\* of the three stored fields.
C35_StoreFrame ==
    [][/\ request'.handler = "handleSetErrorsPercentage" =>
             UNCHANGED <<minDuration, maxDuration>>
       /\ request'.handler = "handleSetDurationInterval" =>
             UNCHANGED errorsPercentage
       /\ request'.handler \in GetHandlers =>
             UNCHANGED <<minDuration, maxDuration, errorsPercentage>>]_vars

C35_Witness ==
    /\ request.handler = "handleSetErrorsPercentage"
    /\ setterCalled = [name |-> "SetErrorsPercentage", err |-> ErrNil]
    /\ errorsPercentage = 15
    /\ <<minDuration, maxDuration>> = <<15, 45>>

(***************************************************************************)
(* Claims about the order of observation and cancellation in Generator.Run *)
(***************************************************************************)

\* C40: Run called with a context that is cancelled before the first
\* observation still makes exactly one observation and at most one error
\* increment and then returns the context's error; and in general every
\* iteration makes exactly one observation and at most one error increment.
C40_ObservesBeforeCancellationCheck ==
    /\ []((gpc = "returned" /\ cancelledAt = 0) =>
            /\ iterations = 1
            /\ observed # NoObservation
            /\ errorsInc <= 1
            /\ genResult = ErrCanceled)
    /\ (cancelledAt = 0) ~> (gpc = "returned")
    /\ [](errorsInc <= iterations)
    /\ [][(gpc = "observe" /\ gpc' # gpc) =>
             (iterations' = iterations + 1 /\ observed' # NoObservation)]_vars
    /\ [][iterations' # iterations => gpc = "observe"]_vars
    /\ [][errorsInc' # errorsInc =>
             (gpc = "errors" /\ errorsInc' = errorsInc + 1)]_vars

C40_Witness ==
    /\ gpc = "returned"
    /\ cancelledAt = 0
    /\ iterations = 1
    /\ observed # NoObservation
    /\ genResult = ErrCanceled

====
